---------------------------- MODULE Spec2Model ----------------------------
(***************************************************************************)
(* A model of lowatt_collect (src/lowatt_collect.py): the execution engine *)
(* (_execute), the collect life cycle (CollectSource.run), the postcollect *)
(* batches (PostCollectFiles.run) and the command call (_call), over a     *)
(* small file system.                                                      *)
(*                                                                         *)
(* A path is the sequence of its segments.  A string that the program      *)
(* builds by formatting or joining is the sequence of its pieces.          *)
(***************************************************************************)
EXTENDS Integers, Sequences, FiniteSets, TLC

(* ------------------------------------------------------------------ *)
(* Bounds and inputs                                                   *)
(* ------------------------------------------------------------------ *)

\* The largest worker pool the model tries (max_workers is drawn from 1..MaxPool).
MaxPool == 2

\* The directory the catalog's sources are collected under.
Root == <<"root">>

\* The names a collect process may leave in its staging directory: a plain
\* name, the name of the quarantine directory, and a hidden name.
FileNames == { "a", "errors", ".index" }

\* A test of the first character that finds no name hidden.
StartsWithDotNever(fname) == FALSE

\* fname.startswith('.'), over FileNames.
StartsWithDot(fname) == fname = ".index"

\* The directory temporary directories are made in.
TmpBase == <<"tmp">>

\* The programs that exist on the machine (anything else cannot be spawned).
Executables == { <<"here", "/echofile.py">> }

\* The environments the caller may hand to collect() / postcollect(): the one
\* of the tests, and the one build_env makes, which defines ROOT.
TestEnv == [v \in {"HERE", "TEST"} |->
              IF v = "HERE" THEN <<"here">> ELSE <<"test">>]

BuiltEnv == [v \in {"HERE", "TEST", "ROOT"} |->
               CASE v = "HERE" -> <<"here">>
                 [] v = "TEST" -> <<"test">>
                 [] OTHER -> Root]

Envs == { TestEnv, BuiltEnv }

(* ------------------------------------------------------------------ *)
(* Command templates                                                   *)
(* ------------------------------------------------------------------ *)

\* A template is the sequence of its shell tokens; a token is a sequence of
\* parts, each a literal or a {VARIABLE} reference.
Lit(s) == [t |-> "lit", v |-> s]

Var(n) == [t |-> "var", v |-> n]

NoTemplate == << >>

EchoFile == <<Var("HERE"), Lit("/echofile.py")>>

TplCollectS1 == << EchoFile, <<Var("DIR"), Lit("/s1.file")>>, <<Lit("hello")>> >>

TplPost1S1 == << EchoFile, <<Var("DIR"), Lit("/s1.file")>>, <<Lit("first")>> >>

TplPost2S1 == << EchoFile, <<Var("DIR"), Lit("/s1.file")>>, <<Lit("second")>> >>

TplAckS1 == << EchoFile, <<Var("OUTPUT_DIR"), Lit("/ack")>>,
               <<Var("SUCCESS_FILES")>>, <<Var("ERROR_FILES")>> >>

TplCollectSub1 == << EchoFile, <<Var("DIRECTORY"), Lit("/s1.file")>> >>

TplCrash == << <<Lit("crashmeforsure")>> >>



(* ------------------------------------------------------------------ *)
(* The catalog                                                         *)
(* ------------------------------------------------------------------ *)

\* A mapping of the catalog keeps its keys in insertion order; a value is a
\* string (one template), a list of templates, or a nested mapping.
Str(tpl) == [t |-> "str", v |-> tpl]

List(tpls) == [t |-> "list", v |-> tpls]

Dict(keys, val) == [t |-> "dict", keys |-> keys, val |-> val]

Keys(sources) == { sources.keys[i] : i \in 1..Len(sources.keys) }

\* The segments of a name that holds path separators (a key that _run made
\* of a source given on the command line), over the keys of the catalogs.
PathParts(name) == IF name = "s2/sub1" THEN << "s2", "sub1" >> ELSE << name >>

RECURSIVE JoinAll(_, _)
\* os.path.join(directory, *names)
JoinAll(directory, names) ==
    IF names = << >> THEN directory
    ELSE JoinAll(directory \o PathParts(Head(names)), Tail(names))

NodeS1 == Dict(<<"collect", "postcollect", "collectack">>,
               [k \in {"collect", "postcollect", "collectack"} |->
                  CASE k = "collect" -> Str(TplCollectS1)
                    [] k = "postcollect" -> List(<<TplPost1S1, TplPost2S1>>)
                    [] OTHER -> Str(TplAckS1)])

NodeSub1 == Dict(<<"collect", "postcollect", "collectack">>,
                 [k \in {"collect", "postcollect", "collectack"} |->
                    CASE k = "collect" -> Str(TplCollectSub1)
                      [] k = "postcollect" -> Str(TplCrash)
                      [] OTHER -> Str(TplCrash)])

NodeS2 == Dict(<<"sub1">>, [k \in {"sub1"} |-> NodeSub1])

Sources == Dict(<<"s1", "s2">>,
                [k \in {"s1", "s2"} |-> IF k = "s1" THEN NodeS1 ELSE NodeS2])

\* A node with a collect template and no postcollect key.
NodeCollectOnly == Dict(<<"collect">>, [k \in {"collect"} |-> Str(TplCrash)])

\* A catalog whose last node has a collect template and no postcollect key.
SourcesNoPostcollect ==
    Dict(<<"s2", "s3">>,
         [k \in {"s2", "s3"} |-> IF k = "s2" THEN NodeS2 ELSE NodeCollectOnly])

\* The `collect` command lines: config['sources'] of the sources file,
\* args.sources (no source, a node together with one of its descendants, the
\* same source twice) and args.call_postcollect.
CollectArgs ==
    [config : {Sources}, sources : {<< >>}, call_postcollect : BOOLEAN]
    \cup [config : {Sources},
          sources : { << "s2", "s2/sub1" >>, << "s2/sub1", "s2/sub1" >> },
          call_postcollect : {TRUE}]
    \cup [config : {SourcesNoPostcollect}, sources : {<< >>},
          call_postcollect : {TRUE}]
    \cup [config : {Sources}, sources : {<< "s3" >>}, call_postcollect : {TRUE}]

SOURCE_KEYS == {"collect", "postcollect"}

\* The template a bare word makes (one token, one literal).
WordTpl(w) == << <<Lit(w)>> >>

\* set(source_def): the keys of a mapping, the elements of a list, the
\* characters of a string (a character is never a whole key).
HasSourceKey(def) ==
    CASE def.t = "dict" -> \E i \in 1..Len(def.keys) : def.keys[i] \in SOURCE_KEYS
      [] def.t = "list" -> \E i \in 1..Len(def.v) :
                               \E w \in SOURCE_KEYS : def.v[i] = WordTpl(w)
      [] OTHER -> FALSE

RECURSIVE SourceDefsBelowPlainOnly(_, _, _)
\* A traversal that goes below a mapping only when it is no definition itself.
SourceDefsBelowPlainOnly(sources, _path, i) ==
    IF i > Len(sources.keys) THEN << >>
    ELSE LET source_key == sources.keys[i]
             source_def == sources.val[source_key]
             path == Append(_path, source_key)
         IN (IF HasSourceKey(source_def)
             THEN << [def |-> source_def, path |-> path] >>
             ELSE IF source_def.t = "dict"
                  THEN SourceDefsBelowPlainOnly(source_def, path, 1)
                  ELSE << >>)
            \o SourceDefsBelowPlainOnly(sources, _path, i + 1)

RECURSIVE SourceDefsFrom(_, _, _)
\* source_defs: the (definition, path) pairs of mapping `sources`, its keys
\* taken from position i on, under path `_path`.
SourceDefsFrom(sources, _path, i) ==
    IF i > Len(sources.keys) THEN << >>
    ELSE LET source_key == sources.keys[i]
             source_def == sources.val[source_key]
             path == Append(_path, source_key)
             own == IF HasSourceKey(source_def)
                    THEN << [def |-> source_def, path |-> path] >>
                    ELSE << >>
             below == IF source_def.t = "dict"
                      THEN SourceDefsFrom(source_def, path, 1)
                      ELSE << >>
         IN own \o below \o SourceDefsFrom(sources, _path, i + 1)

source_defs(sources) == SourceDefsFrom(sources, << >>, 1)

\* dict.get(key): the value, or None.
None == [t |-> "none"]

Get(def, key) ==
    IF \E i \in 1..Len(def.keys) : def.keys[i] = key THEN def.val[key] ELSE None

\* Command.__init__: a single template string becomes a list of one.
AsCmdList(value) ==
    CASE value.t = "str" -> << value.v >>
      [] value.t = "list" -> value.v
      [] OTHER -> << >>

\* A truthy template value: a non-empty string, a non-empty list.
Truthy(value) ==
    CASE value.t = "str" -> value.v # NoTemplate
      [] value.t = "list" -> value.v # << >>
      [] OTHER -> FALSE

RECURSIVE Lookup(_, _)
\* _run: basedict = basedict[key] for each key of source.split(os.path.sep);
\* None where the code ends in parser.error.
Lookup(basedict, keys) ==
    IF keys = << >> THEN basedict
    ELSE IF basedict.t # "dict" \/ Get(basedict, Head(keys)) = None THEN None
    ELSE Lookup(basedict.val[Head(keys)], Tail(keys))

RECURSIVE SelectFrom(_, _, _, _)
\* _run: sources[source] = basedict, for the sources given from position k on.
SelectFrom(config, args_sources, k, sources) ==
    IF k > Len(args_sources) THEN sources
    ELSE LET source == args_sources[k]
             basedict == Lookup(config, PathParts(source))
             keys == IF source \in Keys(sources) THEN sources.keys
                     ELSE Append(sources.keys, source)
         IN SelectFrom(config, args_sources, k + 1,
                       Dict(keys, [x \in Keys(sources) \cup {source} |->
                                     IF x = source THEN basedict
                                     ELSE sources.val[x]]))

\* _run: the sources handed to collect(): the whole catalog, or the nodes of
\* the sources given on the command line, each under the key it was given as.
SelectedSources(config, args_sources) ==
    IF args_sources = << >> THEN config
    ELSE SelectFrom(config, args_sources, 1, Dict(<< >>, << >>))

\* A batch that keeps the first of its files only.
PostCollectFilesFirstOnly(directory, files, postcollect_cmds, path) ==
    [kind |-> "PostCollectFiles",
     cmds |-> postcollect_cmds,
     path |-> path,
     directory |-> directory,
     files |-> IF files = << >> THEN << >> ELSE << files[1] >>]

\* A collect command built without the acknowledgment template.
CollectSourceNoAck(collect_cmd, postcollect_cmds, ack_cmd, path, postcollect_args) ==
    [kind |-> "CollectSource",
     cmds |-> << collect_cmd >>,
     postcollect_cmds |-> postcollect_cmds,
     ack_cmd |-> NoTemplate,
     path |-> path,
     postcollect_args |-> postcollect_args]

CollectSource(collect_cmd, postcollect_cmds, ack_cmd, path, postcollect_args) ==
    [kind |-> "CollectSource",
     cmds |-> << collect_cmd >>,
     postcollect_cmds |-> postcollect_cmds,
     ack_cmd |-> ack_cmd,
     path |-> path,
     postcollect_args |-> postcollect_args]

PostCollectFiles(directory, files, postcollect_cmds, path) ==
    [kind |-> "PostCollectFiles",
     cmds |-> postcollect_cmds,
     path |-> path,
     directory |-> directory,
     files |-> files]

RECURSIVE CollectCommandsFrom(_, _, _, _, _)
\* collect_commands, over the pairs source_defs yields from position i on: one
\* CollectSource per definition with a collect template.  A definition with a
\* collect template and no postcollect key ends the generator with a KeyError.
CollectCommandsFrom(defs, i, collect_options, call_postcollect, postcollect_args) ==
    IF i > Len(defs) THEN << >>
    ELSE LET source_def == defs[i].def
             collect_value == IF source_def.t = "dict"
                              THEN Get(source_def, "collect") ELSE None
             rest == CollectCommandsFrom(defs, i + 1, collect_options,
                                         call_postcollect, postcollect_args)
         IN IF ~Truthy(collect_value) THEN rest
            ELSE IF call_postcollect /\ Get(source_def, "postcollect") = None
            THEN << [kind |-> "KeyError"] >>
            ELSE LET collect_cmd_string == collect_value.v \o collect_options
                     postcollect_cmds ==
                         IF call_postcollect
                         THEN AsCmdList(Get(source_def, "postcollect"))
                         ELSE << >>
                     ack == Get(source_def, "collectack")
                     ack_cmd == IF Truthy(ack) THEN ack.v ELSE NoTemplate
                 IN << CollectSource(collect_cmd_string, postcollect_cmds,
                                     ack_cmd, defs[i].path, postcollect_args) >>
                    \o rest

collect_commands(sources, collect_options, call_postcollect, postcollect_args) ==
    CollectCommandsFrom(source_defs(sources), 1, collect_options,
                        call_postcollect, postcollect_args)


(* ------------------------------------------------------------------ *)
(* Environment and template resolution                                 *)
(* ------------------------------------------------------------------ *)

\* env[key] = value on a dictionary.
Put(env, key, value) ==
    [x \in DOMAIN env \cup {key} |-> IF x = key THEN value ELSE env[x]]

RECURSIVE JoinFrom(_, _, _)
\* sep.join(items), from position i on.
JoinFrom(sep, items, i) ==
    IF i > Len(items) THEN << >>
    ELSE IF i = Len(items) THEN << items[i] >>
    ELSE << items[i], sep >> \o JoinFrom(sep, items, i + 1)

StrJoin(sep, items) == JoinFrom(sep, items, 1)

\* An init_env that sets OUTPUT_DIR whether ROOT is defined or not.
InitEnvAlwaysOutputDir(path, env, directory) ==
    [x \in DOMAIN env \cup {"SOURCE", "COLLECTOR", "DIR", "OUTPUT_DIR"} |->
       CASE x = "SOURCE" -> << path[1] >>
         [] x = "COLLECTOR" -> StrJoin(".", path)
         [] x = "DIR" -> directory
         [] x = "OUTPUT_DIR" -> JoinAll(Root, path)
         [] OTHER -> env[x]]

\* Command.init_env: a copy of env with SOURCE, COLLECTOR, DIR and, when ROOT
\* is defined, OUTPUT_DIR.
init_env(path, env, directory) ==
    LET e1 == Put(env, "SOURCE", << path[1] >>)
        e2 == Put(e1, "COLLECTOR", StrJoin(".", path))
        e3 == Put(e2, "DIR", directory)
    IN IF "ROOT" \in DOMAIN e3
       THEN Put(e3, "OUTPUT_DIR", JoinAll(e3["ROOT"], path))
       ELSE e3

\* The environment of the acknowledgment call.
ack_env(path, env, destdir, tmpdir, success_files, error_files) ==
    LET e1 == init_env(path, env, destdir)
        e2 == Put(e1, "TMPDIR", tmpdir)
        e3 == Put(e2, "SUCCESS_FILES", StrJoin(";", success_files))
    IN Put(e3, "ERROR_FILES", StrJoin(";", error_files))

\* The variables a template refers to.
TemplateVars(base_cmd) ==
    UNION { { base_cmd[i][j].v :
                j \in { k \in 1..Len(base_cmd[i]) : base_cmd[i][k].t = "var" } } :
            i \in 1..Len(base_cmd) }

RECURSIVE FormatFrom(_, _, _)
\* arg.format(**env), from part j on.
FormatFrom(env, arg, j) ==
    IF j > Len(arg) THEN << >>
    ELSE (IF arg[j].t = "var" THEN env[arg[j].v] ELSE << arg[j].v >>)
         \o FormatFrom(env, arg, j + 1)

\* [arg.format(**env) for arg in shlex.split(base_cmd)]
Format(env, base_cmd) ==
    [i \in 1..Len(base_cmd) |-> FormatFrom(env, base_cmd[i], 1)]

\* What _call does with a template before any process runs: a KeyError on an
\* unknown variable, an IOError when the program cannot be spawned, else the
\* process starts with the formatted command followed by the files.
CallOutcome(env, base_cmd, files) ==
    IF ~(TemplateVars(base_cmd) \subseteq DOMAIN env) THEN "KeyError"
    ELSE LET cmd == Format(env, base_cmd) \o files
         IN IF cmd = << >> THEN "IndexError"
            ELSE IF cmd[1] \notin Executables THEN "IOError"
            ELSE "spawned"

\* The exception _call appends to its error list.
Exc(kind, base_cmd) == [exc |-> kind, base_cmd |-> base_cmd]

(* ------------------------------------------------------------------ *)
(* File system                                                         *)
(* ------------------------------------------------------------------ *)

Prefixes(path) == { SubSeq(path, 1, n) : n \in 1..Len(path) }

IsUnder(path, directory) ==
    /\ Len(path) > Len(directory)
    /\ SubSeq(path, 1, Len(directory)) = directory

Basename(path) == path[Len(path)]

Join(directory, name) == Append(directory, name)

\* os.listdir(directory): the names directly inside it, files and directories.
ListDir(files, dirs, directory) ==
    { Basename(p) : p \in { q \in DOMAIN files \cup dirs :
                              /\ Len(q) = Len(directory) + 1
                              /\ IsUnder(q, directory) } }

\* os.makedirs(path, exist_ok=True) fails when the path or one of its parents
\* is a regular file.
MakedirsRaises(files, path) == \E q \in Prefixes(path) : q \in DOMAIN files

\* A makedirs that makes the 'errors' subdirectory along with the directory.
MakedirsWithErrors(dirs, path) == dirs \cup Prefixes(path) \cup { Join(path, "errors") }

Makedirs(dirs, path) == dirs \cup Prefixes(path)

\* shutil.move(src, dst): into dst when dst is a directory, else onto dst.
MoveTarget(dirs, src, dst) ==
    IF dst \in dirs THEN Join(dst, Basename(src)) ELSE dst

\* shutil.move refuses to move into a directory that already holds the name.
MoveRaises(files, dirs, src, dst) ==
    \/ src \notin DOMAIN files
    \/ /\ dst \in dirs
       /\ Join(dst, Basename(src)) \in DOMAIN files \cup dirs

Move(files, dirs, src, dst) ==
    LET target == MoveTarget(dirs, src, dst)
    IN [p \in (DOMAIN files \ {src}) \cup {target} |->
          IF p = target THEN files[src] ELSE files[p]]

\* TemporaryDirectory.cleanup(): the directory and all it holds are removed.
RemoveTree(set, directory) ==
    { p \in set : p # directory /\ ~IsUnder(p, directory) }

Restrict(f, set) == [p \in set |-> f[p]]


(* ------------------------------------------------------------------ *)
(* State                                                               *)
(* ------------------------------------------------------------------ *)

VARIABLES
    fsFiles,        \* the regular files: path -> "new" (written during this
                    \* run) or "old" (left by an earlier run)
    fsDirs,         \* the directories
    main,           \* where the caller of _execute is
    max_workers,    \* the size of the worker pool
    environ,        \* the env argument of this run
    commands,       \* the commands of this run, in the order generated
    submitted,      \* how many of them executor.submit has taken
    pc,             \* per command: where its run() is
    yielded,        \* the futures as_completed has handed to the main thread
    errors,         \* _execute's aggregated error list
    cmd_errors,     \* per command: the `errors` list of its run()
    frame,          \* per command: the Command.execute call in progress
    found,          \* per command: the names os.listdir(tmpdir) returned
    listing,        \* per command: what is left of os.listdir(tmpdir)
    fname,          \* per command: the staged file being processed
    success_files,  \* per command
    error_files,    \* per command
    calls,          \* per command: the _call invocations made, in order
    moved,          \* per command: the shutil.move calls made, in order
    given_sources,  \* the sources mapping the generator of the commands was given
    defs,           \* what source_defs yields for it
    options,        \* call_postcollect, postcollect_args, collect_options, files
    log,            \* the errors the generator of the commands has logged
    batches,        \* per command: the PostCollectFiles commands its run() ran
    exit_status     \* << >> while the program runs, then << its exit status >>

vars == << fsFiles, fsDirs, main, max_workers, environ, commands, submitted,
           pc, yielded, errors, cmd_errors, frame, found, listing, fname,
           success_files, error_files, calls, moved, given_sources, defs, options,
           log, batches, exit_status >>

fsVars == << fsFiles, fsDirs >>

genVars == << given_sources, defs, options, log >>

engineVars == << main, max_workers, environ, commands, submitted, yielded,
                errors, genVars, exit_status >>

Cmds == 1..Len(commands)

\* tempfile.TemporaryDirectory(): a fresh directory of the command's own.
TmpNames == << "tmp1", "tmp2", "tmp3", "tmp4" >>

\* One staging directory that every command uses.
TmpDirShared(i) == Join(TmpBase, TmpNames[1])

TmpDir(i) == Join(TmpBase, TmpNames[i])

DestDir(i) == JoinAll(Root, commands[i].path)

QuarantineDir(i) == Join(DestDir(i), "errors")

NoFrame == [phase |-> "none", cmds |-> << >>, directory |-> << >>,
            files |-> << >>, idx |-> 0, errors |-> << >>]

\* The frame of self.execute(directory, env, *files).
Execute(phase, cmds, directory, files) ==
    [phase |-> phase, cmds |-> cmds, directory |-> directory,
     files |-> files, idx |-> 1, errors |-> << >>]

\* A loop over the templates that is left after the first one.
LoopEndedAfterFirst(fr) == fr.idx > Len(fr.cmds) \/ fr.idx > 1

\* A loop over the templates that is left at the first error.
LoopEndedOnError(fr) == fr.idx > Len(fr.cmds) \/ fr.errors # << >>

\* `for base_cmd in self.cmds` has gone through the whole list.
LoopEnded(fr) == fr.idx > Len(fr.cmds)

\* A listing that is read only when the collect templates reported no error.
StagedNamesIfCollected(i) ==
    IF frame[i].errors = << >> THEN ListDir(fsFiles, fsDirs, TmpDir(i)) ELSE {}

\* os.listdir(tmpdir), read once the collect templates were executed.
StagedNames(i) == ListDir(fsFiles, fsDirs, TmpDir(i))

\* All the orders os.listdir may return the names of a set in.
RECURSIVE Orders(_)
Orders(names) ==
    IF names = {} THEN { << >> }
    ELSE UNION { { << n >> \o rest : rest \in Orders(names \ {n}) } : n \in names }

Running == { i \in Cmds : pc[i] \notin {"new", "queued", "returned", "raised"} }

\* The defaults of collect() and postcollect().
DefaultOptions ==
    [call_postcollect |-> TRUE, postcollect_args |-> TRUE, collect_options |-> << >>,
     files |-> << >>]

\* No run has generated commands yet.
InitGen ==
    /\ given_sources = Dict(<< >>, << >>)
    /\ defs = << >>
    /\ options = DefaultOptions
    /\ log = << >>

Init ==
    /\ InitGen
    /\ fsFiles = << >>
    /\ fsDirs = { Root, TmpBase }
    /\ main = "idle"
    /\ max_workers = 1
    /\ environ = TestEnv
    /\ commands = << >>
    /\ submitted = 0
    /\ pc = << >>
    /\ yielded = {}
    /\ errors = << >>
    /\ cmd_errors = << >>
    /\ frame = << >>
    /\ found = << >>
    /\ listing = << >>
    /\ fname = << >>
    /\ success_files = << >>
    /\ error_files = << >>
    /\ calls = << >>
    /\ moved = << >>
    /\ batches = << >>
    /\ exit_status = << >>

\* _execute(max_workers, commands, *args) entered with the commands `cmds`.
EnterExecute(workers, env, cmds) ==
    /\ max_workers' = workers
    /\ environ' = env
    /\ commands' = cmds
    /\ submitted' = 0
    /\ main' = IF Len(cmds) = 0 THEN "as_completed" ELSE "submit"
    /\ pc' = [i \in 1..Len(cmds) |-> "new"]
    /\ yielded' = {}
    /\ errors' = << >>
    /\ cmd_errors' = [i \in 1..Len(cmds) |-> << >>]
    /\ frame' = [i \in 1..Len(cmds) |-> NoFrame]
    /\ found' = [i \in 1..Len(cmds) |-> {}]
    /\ listing' = [i \in 1..Len(cmds) |-> << >>]
    /\ fname' = [i \in 1..Len(cmds) |-> ""]
    /\ success_files' = [i \in 1..Len(cmds) |-> << >>]
    /\ error_files' = [i \in 1..Len(cmds) |-> << >>]
    /\ calls' = [i \in 1..Len(cmds) |-> << >>]
    /\ moved' = [i \in 1..Len(cmds) |-> << >>]
    /\ batches' = [i \in 1..Len(cmds) |-> << >>]
    /\ exit_status' = << >>

\* collect(sources, root_directory, env, max_workers, collect_options,
\* call_postcollect, postcollect_args), called by _run for one of the command
\* lines `lines` with extra options from `extras`.
CollectFrom(lines, extras) ==
    /\ main = "idle"
    /\ \E workers \in 1..MaxPool, env \in Envs, postcollect_args \in BOOLEAN,
          args \in lines, collect_options \in extras :
         /\ \A k \in 1..Len(args.sources) :
              Lookup(args.config, PathParts(args.sources[k])) # None
         /\ LET selected == SelectedSources(args.config, args.sources)
            IN /\ EnterExecute(workers, env,
                               collect_commands(selected, collect_options,
                                                args.call_postcollect,
                                                postcollect_args))
               /\ given_sources' = selected
               /\ defs' = source_defs(selected)
               /\ options' = [call_postcollect |-> args.call_postcollect,
                              postcollect_args |-> postcollect_args,
                              collect_options |-> collect_options,
                              files |-> << >>]
               /\ log' = << >>
    /\ UNCHANGED fsVars

Collect == CollectFrom(CollectArgs, { << >> })

\* executor.submit(command.run, *args), for the next command generated.
Submit ==
    /\ main = "submit"
    /\ submitted < Len(commands)
    /\ IF commands[submitted + 1].kind \in {"KeyError", "OSError"}
       THEN /\ main' = "shutdown"
            /\ UNCHANGED << submitted, pc >>
       ELSE /\ submitted' = submitted + 1
            /\ pc' = [pc EXCEPT ![submitted + 1] = "queued"]
            /\ main' = IF submitted + 1 = Len(commands)
                       THEN "as_completed" ELSE "submit"
    /\ UNCHANGED << fsVars, genVars, exit_status, batches, max_workers, environ, commands, yielded, errors, cmd_errors,
                    frame, found, listing, fname, success_files, error_files, calls,
                    moved >>

\* A pool whose workers take a command only while another worker is idle.
StartCommandNeedsSpare(i) ==
    /\ pc[i] = "queued"
    /\ Cardinality(Running) + 1 < max_workers
    /\ pc' = [pc EXCEPT ![i] = IF commands[i].kind = "CollectSource"
                                THEN "begin" ELSE "execute"]
    /\ frame' = [frame EXCEPT ![i] =
                   IF commands[i].kind = "CollectSource" THEN @
                   ELSE Execute("batch", commands[i].cmds,
                                commands[i].directory, commands[i].files)]
    /\ UNCHANGED << fsVars, engineVars, batches, cmd_errors, found, listing, fname,
                    success_files, error_files, calls, moved >>

\* A free worker takes the oldest queued command and calls its run().
StartCommand(i) ==
    /\ pc[i] = "queued"
    /\ \A j \in 1..(i - 1) : pc[j] # "queued"
    /\ Cardinality(Running) < max_workers
    /\ IF commands[i].kind = "CollectSource"
       THEN /\ pc' = [pc EXCEPT ![i] = "begin"]
            /\ UNCHANGED frame
       ELSE /\ pc' = [pc EXCEPT ![i] = "execute"]
            /\ frame' = [frame EXCEPT ![i] =
                           Execute("batch", commands[i].cmds,
                                   commands[i].directory, commands[i].files)]
    /\ UNCHANGED << fsVars, engineVars, batches, cmd_errors, found, listing, fname,
                    success_files, error_files, calls, moved >>


(* ------------------------------------------------------------------ *)
(* CollectSource.run and Command.execute                               *)
(* ------------------------------------------------------------------ *)

\* What a raise inside the `with TemporaryDirectory()` block leaves: the
\* staging directory is cleaned up and the future holds the exception.
RaiseInRun(i, files, dirs) ==
    /\ fsFiles' = Restrict(files, RemoveTree(DOMAIN files, TmpDir(i)))
    /\ fsDirs' = RemoveTree(dirs, TmpDir(i))
    /\ pc' = [pc EXCEPT ![i] = "raised"]

\* The entry _call leaves in the history of command i.
CallEntry(i, phase, base_cmd, files, env, outcome) ==
    [phase |-> phase, base_cmd |-> base_cmd, fname |-> fname[i],
     files |-> files, outcome |-> outcome,
     env |-> Restrict(env, DOMAIN env \ DOMAIN environ),
     staged |-> TmpDir(i) \in fsDirs]

\* run(): destdir is made, then the staging directory, then the collect
\* template is executed with the staging directory as DIR.
Begin(i) ==
    /\ pc[i] = "begin"
    /\ IF MakedirsRaises(fsFiles, DestDir(i))
       THEN /\ pc' = [pc EXCEPT ![i] = "raised"]
            /\ UNCHANGED << fsVars, frame >>
       ELSE /\ fsDirs' = Makedirs(fsDirs, DestDir(i)) \cup { TmpDir(i) }
            /\ frame' = [frame EXCEPT ![i] =
                           Execute("collect", commands[i].cmds, TmpDir(i), << >>)]
            /\ pc' = [pc EXCEPT ![i] = "execute"]
            /\ UNCHANGED fsFiles
    /\ UNCHANGED << engineVars, batches, cmd_errors, found, listing, fname, success_files,
                    error_files, calls, moved >>

\* execute(): _call(env, base_cmd, files) for the next template of the list.
\* Either _call fails at once (unknown variable, program that cannot be
\* spawned) and its error is added, or the process starts.
ExecuteCall(i) ==
    /\ pc[i] = "execute"
    /\ ~LoopEnded(frame[i])
    /\ LET base_cmd == frame[i].cmds[frame[i].idx]
           env == init_env(commands[i].path, environ, frame[i].directory)
           outcome == CallOutcome(env, base_cmd, frame[i].files)
       IN /\ calls' = [calls EXCEPT ![i] =
                         Append(@, CallEntry(i, frame[i].phase, base_cmd,
                                             frame[i].files, env,
                                             IF outcome = "spawned"
                                             THEN "running" ELSE outcome))]
          /\ IF outcome = "spawned"
             THEN /\ pc' = [pc EXCEPT ![i] = "execute_wait"]
                  /\ UNCHANGED frame
             ELSE /\ frame' = [frame EXCEPT
                                 ![i].errors = Append(@, Exc(outcome, base_cmd)),
                                 ![i].idx = @ + 1]
                  /\ UNCHANGED pc
    /\ UNCHANGED << fsVars, engineVars, batches, cmd_errors, found, listing, fname,
                    success_files, error_files, moved >>

\* The process _call waits for ends, with exit status 0 or not.  A collect
\* process has written some files into its DIR, the staging directory.
ProcessExit(i) ==
    /\ pc[i] = "execute_wait"
    /\ \E ok \in BOOLEAN :
         /\ calls' = [calls EXCEPT ![i][Len(calls[i])].outcome =
                                       IF ok THEN "ok" ELSE "CalledProcessError"]
         /\ frame' = [frame EXCEPT
                        ![i].errors =
                            IF ok THEN @
                            ELSE Append(@, Exc("CalledProcessError",
                                               frame[i].cmds[frame[i].idx])),
                        ![i].idx = @ + 1]
    /\ IF frame[i].phase = "collect"
       THEN \E written \in SUBSET FileNames :
              fsFiles' = [p \in DOMAIN fsFiles \cup
                                  { Join(TmpDir(i), n) : n \in written } |->
                            IF p \in DOMAIN fsFiles THEN fsFiles[p] ELSE "new"]
       ELSE UNCHANGED fsFiles
    /\ pc' = [pc EXCEPT ![i] = "execute"]
    /\ UNCHANGED << fsDirs, engineVars, batches, cmd_errors, found, listing, fname,
                    success_files, error_files, moved >>

\* errors = self.execute(tmpdir, env) has returned; os.listdir(tmpdir) is read.
CollectExecuted(i) ==
    /\ pc[i] = "execute"
    /\ frame[i].phase = "collect"
    /\ LoopEnded(frame[i])
    /\ cmd_errors' = [cmd_errors EXCEPT ![i] = frame[i].errors]
    /\ found' = [found EXCEPT ![i] = StagedNames(i)]
    /\ \E order \in Orders(StagedNames(i)) :
         listing' = [listing EXCEPT ![i] = order]
    /\ frame' = [frame EXCEPT ![i] = NoFrame]
    /\ pc' = [pc EXCEPT ![i] = "loop"]
    /\ UNCHANGED << fsVars, engineVars, batches, fname, success_files, error_files,
                    calls, moved >>

\* The head of `for fname in os.listdir(tmpdir)`: a hidden file is skipped,
\* any other gets a PostCollectFiles command of its own, which is run.
NextFile(i) ==
    /\ pc[i] = "loop"
    /\ listing[i] # << >>
    /\ listing' = [listing EXCEPT ![i] = Tail(@)]
    /\ LET name == Head(listing[i])
           fpath == Join(TmpDir(i), name)
           files == IF commands[i].postcollect_args THEN << fpath >> ELSE << >>
           cmd == PostCollectFiles(TmpDir(i), files,
                                   commands[i].postcollect_cmds, commands[i].path)
       IN IF StartsWithDot(name)
          THEN UNCHANGED << pc, frame, fname, batches >>
          ELSE /\ fname' = [fname EXCEPT ![i] = name]
               /\ batches' = [batches EXCEPT ![i] = Append(@, cmd)]
               /\ frame' = [frame EXCEPT ![i] =
                              Execute("postcollect", cmd.cmds, cmd.directory,
                                      cmd.files)]
               /\ pc' = [pc EXCEPT ![i] = "execute"]
    /\ UNCHANGED << fsVars, engineVars, cmd_errors, found, success_files,
                    error_files, calls, moved >>

\* A run() that never takes the `if excs` branch.
BatchFailedNever(excs) == FALSE

\* `if excs`: whether the file's postcollect reported an error.
BatchFailed(excs) == excs # << >>

\* Where the file goes: the quarantine directory or the destination.
\* A placement that does not look at the errors of the batch.
PlaceDirAlwaysDest(i, excs) == DestDir(i)

PlaceDir(i, excs) == IF BatchFailed(excs) THEN QuarantineDir(i) ELSE DestDir(i)

\* excs = cmd.run(env) has returned: the file is moved to the 'errors'
\* directory of the destination, made if needed, or to the destination.
Place(i) ==
    /\ pc[i] = "execute"
    /\ frame[i].phase = "postcollect"
    /\ LoopEnded(frame[i])
    /\ LET excs == frame[i].errors
           fpath == Join(TmpDir(i), fname[i])
           dst == Join(PlaceDir(i, excs), fname[i])
           dirs == IF BatchFailed(excs) /\ ~MakedirsRaises(fsFiles, QuarantineDir(i))
                   THEN Makedirs(fsDirs, QuarantineDir(i)) ELSE fsDirs
       IN /\ cmd_errors' = [cmd_errors EXCEPT ![i] = @ \o excs]
          /\ IF \/ BatchFailed(excs) /\ MakedirsRaises(fsFiles, QuarantineDir(i))
                \/ MoveRaises(fsFiles, dirs, fpath, dst)
             THEN /\ RaiseInRun(i, fsFiles, dirs)
                  /\ UNCHANGED << success_files, error_files, moved >>
             ELSE /\ fsFiles' = Move(fsFiles, dirs, fpath, dst)
                  /\ fsDirs' = dirs
                  /\ moved' = [moved EXCEPT ![i] =
                                 Append(@, [fname |-> fname[i], src |-> fpath,
                                            target |-> MoveTarget(dirs, fpath, dst)])]
                  /\ IF BatchFailed(excs)
                     THEN /\ error_files' = [error_files EXCEPT ![i] =
                                               Append(@, fname[i])]
                          /\ UNCHANGED success_files
                     ELSE /\ success_files' = [success_files EXCEPT ![i] =
                                                 Append(@, fname[i])]
                          /\ UNCHANGED error_files
                  /\ pc' = [pc EXCEPT ![i] = "loop"]
    /\ frame' = [frame EXCEPT ![i] = NoFrame]
    /\ UNCHANGED << engineVars, batches, found, listing, fname, calls >>


\* After the loop: `if self.ack_cmd`, the acknowledgment template is called
\* with TMPDIR, SUCCESS_FILES and ERROR_FILES; what _call returns is dropped.
AckCall(i) ==
    /\ pc[i] = "loop"
    /\ listing[i] = << >>
    /\ IF commands[i].ack_cmd = NoTemplate
       THEN /\ pc' = [pc EXCEPT ![i] = "cleanup"]
            /\ UNCHANGED calls
       ELSE LET env == ack_env(commands[i].path, environ, DestDir(i), TmpDir(i),
                               success_files[i], error_files[i])
                outcome == CallOutcome(env, commands[i].ack_cmd, << >>)
            IN /\ calls' = [calls EXCEPT ![i] =
                              Append(@, CallEntry(i, "ack", commands[i].ack_cmd,
                                                  << >>, env,
                                                  IF outcome = "spawned"
                                                  THEN "running" ELSE outcome))]
               /\ pc' = [pc EXCEPT ![i] =
                           IF outcome = "spawned" THEN "ack_wait" ELSE "cleanup"]
    /\ UNCHANGED << fsVars, engineVars, batches, cmd_errors, frame, found, listing, fname,
                    success_files, error_files, moved >>

\* The acknowledgment process ends, with exit status 0 or not.
AckExit(i) ==
    /\ pc[i] = "ack_wait"
    /\ \E ok \in BOOLEAN :
         calls' = [calls EXCEPT ![i][Len(calls[i])].outcome =
                                   IF ok THEN "ok" ELSE "CalledProcessError"]
    /\ pc' = [pc EXCEPT ![i] = "cleanup"]
    /\ UNCHANGED << fsVars, engineVars, batches, cmd_errors, frame, found, listing, fname,
                    success_files, error_files, moved >>

\* A return from run() that leaves the staging directory behind.
FinishKeepsStaging(i) ==
    /\ pc[i] = "cleanup"
    /\ pc' = [pc EXCEPT ![i] = "returned"]
    /\ UNCHANGED << fsVars, engineVars, batches, cmd_errors, frame, found, listing,
                    fname, success_files, error_files, calls, moved >>

\* The `with` block is left: the staging directory is removed with all it
\* still holds, and run() returns errors.
Finish(i) ==
    /\ pc[i] = "cleanup"
    /\ fsFiles' = Restrict(fsFiles, RemoveTree(DOMAIN fsFiles, TmpDir(i)))
    /\ fsDirs' = RemoveTree(fsDirs, TmpDir(i))
    /\ pc' = [pc EXCEPT ![i] = "returned"]
    /\ UNCHANGED << engineVars, batches, cmd_errors, frame, found, listing, fname,
                    success_files, error_files, calls, moved >>

\* PostCollectFiles.run: return self.execute(self.directory, env, *self.files)
BatchReturn(i) ==
    /\ pc[i] = "execute"
    /\ frame[i].phase = "batch"
    /\ LoopEnded(frame[i])
    /\ cmd_errors' = [cmd_errors EXCEPT ![i] = frame[i].errors]
    /\ frame' = [frame EXCEPT ![i] = NoFrame]
    /\ pc' = [pc EXCEPT ![i] = "returned"]
    /\ UNCHANGED << fsVars, engineVars, batches, found, listing, fname, success_files,
                    error_files, calls, moved >>

(* ------------------------------------------------------------------ *)
(* _execute                                                            *)
(* ------------------------------------------------------------------ *)

\* A hand-over that adds what a command accumulated even when its run() raised.
FutureErrorsAccumulated(i) == cmd_errors[i]

\* What future.result() adds to the aggregate: the errors run() returned, or
\* nothing when run() raised (the exception is logged).
FutureErrors(i) == IF pc[i] = "returned" THEN cmd_errors[i] ELSE << >>

\* A hand-over that keeps only the errors of the future handed over.
YieldOverwrite(i) ==
    /\ main = "as_completed"
    /\ pc[i] \in {"returned", "raised"}
    /\ i \notin yielded
    /\ yielded' = yielded \cup {i}
    /\ errors' = FutureErrors(i)
    /\ UNCHANGED << fsVars, genVars, exit_status, batches, main, max_workers, environ, commands, submitted, pc,
                    cmd_errors, frame, found, listing, fname, success_files,
                    error_files, calls, moved >>

\* A hand-over that lets the exception of a future leave _execute.
YieldPropagates(i) ==
    /\ main = "as_completed"
    /\ pc[i] \in {"returned", "raised"}
    /\ i \notin yielded
    /\ yielded' = yielded \cup {i}
    /\ errors' = errors \o FutureErrors(i)
    /\ main' = IF pc[i] = "raised" THEN "raised" ELSE main
    /\ UNCHANGED << fsVars, genVars, exit_status, batches, max_workers, environ, commands, submitted, pc,
                    cmd_errors, frame, found, listing, fname, success_files,
                    error_files, calls, moved >>

\* as_completed hands a finished future to the main thread.
Yield(i) ==
    /\ main = "as_completed"
    /\ pc[i] \in {"returned", "raised"}
    /\ i \notin yielded
    /\ yielded' = yielded \cup {i}
    /\ errors' = errors \o FutureErrors(i)
    /\ UNCHANGED << fsVars, genVars, exit_status, batches, main, max_workers, environ, commands, submitted, pc,
                    cmd_errors, frame, found, listing, fname, success_files,
                    error_files, calls, moved >>

\* The generator of the commands has raised: the `with` block of the executor
\* is left once every submitted command has ended, and _execute raises.  No
\* caller catches the exception: the interpreter ends with status 1.
ExecuteRaise ==
    /\ main = "shutdown"
    /\ \A i \in 1..submitted : pc[i] \in {"returned", "raised"}
    /\ main' = "raised"
    /\ exit_status' = << 1 >>
    /\ UNCHANGED << fsVars, genVars, batches, max_workers, environ, commands, submitted, pc, yielded,
                    errors, cmd_errors, frame, found, listing, fname, success_files,
                    error_files, calls, moved >>

\* Every future was handed over: the executor is shut down, errors returned,
\* and _run ends with sys.exit(2 if errors else 0).
ExecuteReturn ==
    /\ main = "as_completed"
    /\ yielded = Cmds
    /\ main' = "returned"
    /\ exit_status' = IF errors # << >> THEN << 2 >> ELSE << 0 >>
    /\ UNCHANGED << fsVars, genVars, batches, max_workers, environ, commands, submitted, pc, yielded,
                    errors, cmd_errors, frame, found, listing, fname, success_files,
                    error_files, calls, moved >>

(* ------------------------------------------------------------------ *)
(* The postcollect pass over the root directory                        *)
(* ------------------------------------------------------------------ *)

\* The names os.listdir may return anywhere under the root.
ListedNames == FileNames \cup {"s1", "s2", "sub1"}

RECURSIVE ScanFrom(_, _, _, _, _, _, _, _, _)
RECURSIVE ScanFromIntoErrors(_, _, _, _, _, _, _, _, _)
RECURSIVE postcollect_commands(_, _, _, _, _, _, _)
\* A scan that takes a directory named 'errors' for a part of the source it
\* is in and goes through it.
ScanFromIntoErrors(files, dirs, directory, sources, _path, postcollect_args, order, names, k) ==
    IF k > Len(names) THEN [cmds |-> << >>, files |-> << >>, log |-> << >>]
    ELSE LET name == names[k]
             fpath == Join(directory, name)
             rest == ScanFromIntoErrors(files, dirs, directory, sources, _path,
                                        postcollect_args, order, names, k + 1)
         IN IF fpath \in dirs
            THEN IF name \notin Keys(sources)
                 THEN IF name # "errors"
                      THEN [rest EXCEPT !.log =
                              << [msg |-> "No source matching", path |-> fpath] >> \o @]
                      ELSE LET sub == postcollect_commands(
                                          files, dirs, fpath, sources, _path,
                                          postcollect_args, order)
                           IN [rest EXCEPT !.cmds = sub.cmds \o @,
                                           !.log = sub.log \o @]
                 ELSE LET sub == postcollect_commands(
                                     files, dirs, fpath, sources.val[name],
                                     Append(_path, name), postcollect_args, order)
                      IN [rest EXCEPT !.cmds = sub.cmds \o @,
                                      !.log = sub.log \o @]
            ELSE IF "postcollect" \notin Keys(sources)
                 THEN [rest EXCEPT !.log =
                         << [msg |-> "No postcollect command", path |-> fpath] >> \o @]
                 ELSE [rest EXCEPT !.files = << fpath >> \o @]

\* The loop of postcollect_commands over `names` (os.listdir(directory)) from
\* position k on: the commands of the matching subdirectories, the files
\* kept for this directory's own command, and the errors logged.
ScanFrom(files, dirs, directory, sources, _path, postcollect_args, order, names, k) ==
    IF k > Len(names) THEN [cmds |-> << >>, files |-> << >>, log |-> << >>]
    ELSE LET name == names[k]
             fpath == Join(directory, name)
             rest == ScanFrom(files, dirs, directory, sources, _path,
                              postcollect_args, order, names, k + 1)
         IN IF fpath \in dirs
            THEN IF name \notin Keys(sources)
                 THEN IF name # "errors"
                      THEN [rest EXCEPT !.log =
                              << [msg |-> "No source matching", path |-> fpath] >> \o @]
                      ELSE rest
                 ELSE LET sub == postcollect_commands(
                                     files, dirs, fpath, sources.val[name],
                                     Append(_path, name), postcollect_args, order)
                      IN [rest EXCEPT !.cmds = sub.cmds \o @,
                                      !.log = sub.log \o @]
            ELSE IF "postcollect" \notin Keys(sources)
                 THEN [rest EXCEPT !.log =
                         << [msg |-> "No postcollect command", path |-> fpath] >> \o @]
                 ELSE [rest EXCEPT !.files = << fpath >> \o @]

\* postcollect_commands(directory, sources, _path, postcollect_args), with
\* os.listdir returning names in the order of `order`.
postcollect_commands(files, dirs, directory, sources, _path, postcollect_args, order) ==
    LET Listed(n) == n \in ListDir(files, dirs, directory)
        scan == ScanFrom(files, dirs, directory, sources, _path,
                         postcollect_args, order, SelectSeq(order, Listed), 1)
    IN [cmds |-> scan.cmds \o
                 (IF scan.files # << >>
                  THEN << PostCollectFiles(
                              directory,
                              IF postcollect_args THEN scan.files ELSE << >>,
                              AsCmdList(sources.val["postcollect"]), _path) >>
                  ELSE << >>),
        log |-> scan.log]

\* The entries a `files` list is made of: names of sources, paths of files
\* under the root (one of them quarantined, one directly in the root) and the
\* path of a file elsewhere.
FileArgs == { "s1", "s2", "s2.sub1", "/root/s1/a", "/root/s2/sub1/a",
              "/root/s1/errors/a", "/root/.index", "/elsewhere/a" }

\* fpath.split('.')
SplitDot(fpath) ==
    CASE fpath = "s2.sub1" -> << "s2", "sub1" >>
      [] fpath = "/root/.index" -> << "/root/", "index" >>
      [] OTHER -> << fpath >>

\* '.'.join(path), for a path that leads to a node of the catalog.
DotJoin(path) == IF path = << "s2", "sub1" >> THEN "s2.sub1" ELSE path[1]

\* abspath(fpath), as the sequence of the names on the path.
AbsPath(fpath) ==
    CASE fpath = "/root/s1/a" -> << "root", "s1", "a" >>
      [] fpath = "/root/s2/sub1/a" -> << "root", "s2", "sub1", "a" >>
      [] fpath = "/root/s1/errors/a" -> << "root", "s1", "errors", "a" >>
      [] fpath = "/root/.index" -> << "root", ".index" >>
      [] fpath = "/elsewhere/a" -> << "elsewhere", "a" >>
      [] OTHER -> << "cwd", fpath >>

\* fpath.startswith(root_directory)
StartsWith(fpath, root_directory) ==
    fpath = root_directory \/ IsUnder(fpath, root_directory)

\* relpath(dirname(fpath), root_directory).split(os.sep), empty parts dropped
RelParts(fpath, root_directory) ==
    IF Len(fpath) = Len(root_directory) + 1 THEN << "." >>
    ELSE SubSeq(fpath, Len(root_directory) + 1, Len(fpath) - 1)

\* source_for_path: the node the keys of `path` lead to; None for KeyError.
source_for_path(sources, path) == Lookup(sources, path)

\* source_for_file
source_for_file(sources, fpath, root_directory) ==
    source_for_path(sources, RelParts(fpath, root_directory))

\* files_by_source[key] += files, with the source kept in sources_cache, when
\* the source has a postcollect command; an error logged otherwise.
AddFiles(acc, key, file_source, files, fpath) ==
    IF Truthy(Get(file_source, "postcollect"))
    THEN [acc EXCEPT
            !.keys = IF key \in DOMAIN acc.by THEN @ ELSE Append(@, key),
            !.by = [x \in DOMAIN acc.by \cup {key} |->
                      IF x = key
                      THEN (IF key \in DOMAIN acc.by THEN acc.by[key] ELSE << >>)
                           \o files
                      ELSE acc.by[x]],
            !.cache = [x \in DOMAIN acc.cache \cup {key} |->
                         IF x \in DOMAIN acc.cache THEN acc.cache[x]
                         ELSE file_source]]
    ELSE [acc EXCEPT !.log = Append(@, [msg |-> "has no postcollect command",
                                        path |-> fpath])]

RECURSIVE FilesBySource(_, _, _, _, _, _, _, _)
\* The first loop of files_postcollect_commands, over the entries of `files`
\* from position k on, os.listdir returning names in the order of `order`.
\* It ends at once when os.listdir raises (no such directory).
FilesBySource(fs_files, fs_dirs, files, sources, root_directory, order, k, acc) ==
    IF k > Len(files) THEN acc
    ELSE LET fpath == files[k]
             path == SplitDot(fpath)
             directory == JoinAll(root_directory, path)
             Kept(n) == /\ n \in ListDir(fs_files, fs_dirs, directory)
                        /\ Join(directory, n) \notin fs_dirs
             names == SelectSeq(order, Kept)
             listed == [n \in 1..Len(names) |-> Join(directory, names[n])]
             abs == AbsPath(fpath)
             Rest(next) == FilesBySource(fs_files, fs_dirs, files, sources,
                                         root_directory, order, k + 1, next)
         IN IF source_for_path(sources, path) # None
            THEN IF directory \notin fs_dirs
                 THEN [acc EXCEPT !.raised = TRUE]
                 ELSE Rest(AddFiles(acc, DotJoin(path),
                                    source_for_path(sources, path), listed, fpath))
            ELSE IF ~StartsWith(abs, root_directory)
            THEN Rest([acc EXCEPT !.log =
                         Append(@, [msg |-> "isn't under root", path |-> fpath])])
            ELSE IF source_for_file(sources, abs, root_directory) = None
            THEN Rest([acc EXCEPT !.log =
                         Append(@, [msg |-> "Can't find source", path |-> fpath])])
            ELSE Rest(AddFiles(acc, DotJoin(RelParts(abs, root_directory)),
                               source_for_file(sources, abs, root_directory),
                               << abs >>, fpath))

\* A generator that stops before its first command with an OSError.
OSError == [kind |-> "OSError"]

\* files_postcollect_commands(files, sources, root_directory): one
\* PostCollectFiles per key of files_by_source, in insertion order.
files_postcollect_commands(fs_files, fs_dirs, files, sources, root_directory, order) ==
    LET by_source == FilesBySource(fs_files, fs_dirs, files, sources,
                                   root_directory, order, 1,
                                   [keys |-> << >>, by |-> << >>, cache |-> << >>,
                                    log |-> << >>, raised |-> FALSE])
    IN [cmds |-> IF by_source.raised THEN << OSError >>
                 ELSE [n \in 1..Len(by_source.keys) |->
                         LET source_key == by_source.keys[n]
                         IN PostCollectFiles(
                                JoinAll(root_directory, SplitDot(source_key)),
                                by_source.by[source_key],
                                AsCmdList(by_source.cache[source_key].val["postcollect"]),
                                SplitDot(source_key))],
        log |-> by_source.log]

\* postcollect(root_directory, sources, env, files, max_workers,
\* postcollect_args), called with one of the file lists `lists`, os.listdir
\* returning names in one of the orders `orders`.
PostcollectFrom(lists, orders) ==
    /\ main = "idle"
    /\ \E workers \in 1..MaxPool, env \in Envs, postcollect_args \in BOOLEAN,
          order \in orders, files \in lists :
         LET generated ==
                 IF files # << >>
                 THEN files_postcollect_commands(fsFiles, fsDirs, files, Sources,
                                                 Root, order)
                 ELSE postcollect_commands(fsFiles, fsDirs, Root, Sources, << >>,
                                           postcollect_args, order)
         IN /\ EnterExecute(workers, env, generated.cmds)
            /\ given_sources' = Sources
            /\ defs' = << >>
            /\ options' = [DefaultOptions EXCEPT !.postcollect_args = postcollect_args,
                                                 !.files = files]
            /\ log' = generated.log
    /\ UNCHANGED fsVars

Postcollect == PostcollectFrom({ << >> }, Orders(ListedNames))

\* _run ends before any command is generated, with the status `status`,
\* having logged `messages`.
SetupFailure(status, messages) ==
    /\ main = "idle"
    /\ main' = "failed"
    /\ exit_status' = << status >>
    /\ log' = messages
    /\ UNCHANGED << fsVars, given_sources, defs, options, batches, max_workers,
                    environ, commands,
                    submitted, pc, yielded, errors, cmd_errors, frame, found,
                    listing, fname, success_files, error_files, calls, moved >>

\* No subcommand on the command line: parser.print_help(); sys.exit(1)
NoCommand == SetupFailure(1, << >>)

\* The sources file cannot be read or parsed: LOGGER.error(...); sys.exit(1)
UnreadableSourcesFile ==
    SetupFailure(1, << [msg |-> "An error occured while reading sources file",
                        path |-> << >>] >>)

\* `collect` with a source that is not in the catalog: parser.error(...),
\* with which argparse ends the program with status 2.
UnexistingSource ==
    /\ \E args \in CollectArgs :
         \E k \in 1..Len(args.sources) :
           Lookup(args.config, PathParts(args.sources[k])) = None
    /\ SetupFailure(2, << >>)

\* The command line returns; a later invocation finds the files of this one.
NewRun ==
    /\ main \in {"returned", "raised", "failed"}
    /\ fsFiles' = [p \in DOMAIN fsFiles |-> "old"]
    /\ main' = "idle"
    /\ max_workers' = 1
    /\ environ' = TestEnv
    /\ commands' = << >>
    /\ submitted' = 0
    /\ pc' = << >>
    /\ yielded' = {}
    /\ errors' = << >>
    /\ cmd_errors' = << >>
    /\ frame' = << >>
    /\ found' = << >>
    /\ listing' = << >>
    /\ fname' = << >>
    /\ success_files' = << >>
    /\ error_files' = << >>
    /\ calls' = << >>
    /\ moved' = << >>
    /\ batches' = << >>
    /\ exit_status' = << >>
    /\ given_sources' = Dict(<< >>, << >>)
    /\ defs' = << >>
    /\ options' = DefaultOptions
    /\ log' = << >>
    /\ UNCHANGED fsDirs

Next ==
    \/ Collect
    \/ Postcollect
    \/ Submit
    \/ \E i \in Cmds : StartCommand(i)
    \/ \E i \in Cmds : Begin(i)
    \/ \E i \in Cmds : ExecuteCall(i)
    \/ \E i \in Cmds : ProcessExit(i)
    \/ \E i \in Cmds : CollectExecuted(i)
    \/ \E i \in Cmds : NextFile(i)
    \/ \E i \in Cmds : Place(i)
    \/ \E i \in Cmds : AckCall(i)
    \/ \E i \in Cmds : AckExit(i)
    \/ \E i \in Cmds : Finish(i)
    \/ \E i \in Cmds : BatchReturn(i)
    \/ \E i \in Cmds : Yield(i)
    \/ ExecuteReturn
    \/ ExecuteRaise
    \/ NoCommand
    \/ UnreadableSourcesFile
    \/ UnexistingSource
    \/ NewRun

Spec == Init /\ [][Next]_vars


(* ------------------------------------------------------------------ *)
(* source_defs and collect_commands over a family of catalogs          *)
(* ------------------------------------------------------------------ *)

\* A template that names the key of the node it belongs to.
Tpl(word, key) == << <<Lit(word)>>, <<Lit(key)>> >>

\* What a node defines itself: a collect, a postcollect list and a collectack
\* template; a postcollect template only; a collect template only; nothing.
NodeKinds == {"full", "postcollect", "collect", "plain"}

OwnKeys(kind) ==
    CASE kind = "full" -> << "collect", "postcollect", "collectack" >>
      [] kind = "postcollect" -> << "postcollect" >>
      [] kind = "collect" -> << "collect" >>
      [] OTHER -> << >>

OwnValue(kind, key, k) ==
    CASE k = "collect" -> Str(Tpl("collect", key))
      [] k = "postcollect" -> IF kind = "full"
                              THEN List(<< Tpl("first", key), Tpl("second", key) >>)
                              ELSE Str(Tpl("post", key))
      [] OTHER -> Str(Tpl("ack", key))

\* The mapping of a node of kind `kind` under key `key` with the child nodes
\* `kids`, its own keys written after them when `kids_first`.
Node(kind, key, kids, kids_first) ==
    LET kid_keys == [i \in 1..Len(kids) |-> kids[i].key]
        keys == IF kids_first THEN kid_keys \o OwnKeys(kind)
                ELSE OwnKeys(kind) \o kid_keys
    IN Dict(keys,
            [k \in { keys[i] : i \in 1..Len(keys) } |->
               IF \E i \in 1..Len(kids) : kids[i].key = k
               THEN kids[CHOOSE i \in 1..Len(kids) : kids[i].key = k].node
               ELSE OwnValue(kind, key, k)])

Kid(key, node) == [key |-> key, node |-> node]

Leaves(key) == { Node(kind, key, << >>, FALSE) : kind \in NodeKinds }

\* No child, one child, two children in either order.
KidSeqs ==
    { << >> }
    \cup { << Kid("sub1", n) >> : n \in Leaves("sub1") }
    \cup { << Kid("sub1", n1), Kid("sub2", n2) >> :
             n1 \in Leaves("sub1"), n2 \in Leaves("sub2") }
    \cup { << Kid("sub2", n2), Kid("sub1", n1) >> :
             n1 \in Leaves("sub1"), n2 \in Leaves("sub2") }

Inner(key) ==
    { Node(kind, key, kids, kids_first) :
        kind \in NodeKinds, kids \in KidSeqs, kids_first \in BOOLEAN }

\* Catalogs of two sources in either order, the second with children, and
\* catalogs three levels deep.
Catalogs ==
    { Dict(<< "s1", "s2" >>, [k \in {"s1", "s2"} |-> IF k = "s1" THEN n1 ELSE n2]) :
        n1 \in Leaves("s1"), n2 \in Inner("s2") }
    \cup { Dict(<< "s2", "s1" >>, [k \in {"s1", "s2"} |-> IF k = "s1" THEN n1 ELSE n2]) :
             n1 \in Leaves("s1"), n2 \in Inner("s2") }
    \cup { Dict(<< "s2" >>,
                [k \in {"s2"} |->
                   Node(k2, "s2",
                        << Kid("sub1", Node(k1, "sub1", << Kid("sub2", n) >>, FALSE)) >>,
                        FALSE)]) :
             k2 \in NodeKinds, k1 \in NodeKinds, n \in Leaves("sub2") }

\* collect_options: none, or one option given after `--`.
CollectOptions == { << >>, << <<Lit("--verbose")>> >> }

\* A catalog and the options of collect(), before anything is generated.
InitCatalog ==
    /\ given_sources \in Catalogs
    /\ options \in [call_postcollect : BOOLEAN, postcollect_args : BOOLEAN,
                     collect_options : CollectOptions, files : { << >> }]
    /\ defs = << >>
    /\ log = << >>
    /\ fsFiles = << >>
    /\ fsDirs = { Root, TmpBase }
    /\ main = "idle"
    /\ max_workers = 1
    /\ environ = TestEnv
    /\ commands = << >>
    /\ submitted = 0
    /\ pc = << >>
    /\ yielded = {}
    /\ errors = << >>
    /\ cmd_errors = << >>
    /\ frame = << >>
    /\ found = << >>
    /\ listing = << >>
    /\ fname = << >>
    /\ success_files = << >>
    /\ error_files = << >>
    /\ calls = << >>
    /\ moved = << >>
    /\ batches = << >>
    /\ exit_status = << >>

\* list(source_defs(sources))
SourceDefs ==
    /\ main = "idle"
    /\ defs' = source_defs(given_sources)
    /\ main' = "source_defs"
    /\ UNCHANGED << fsVars, max_workers, environ, commands, submitted, yielded,
                    errors, given_sources, options, log, pc, cmd_errors, frame,
                    found, listing, fname, success_files, error_files, calls,
                    moved, batches, exit_status >>

\* list(collect_commands(sources, collect_options, call_postcollect,
\* postcollect_args)), handed to _execute.
CollectCommands ==
    /\ main = "source_defs"
    /\ EnterExecute(max_workers, environ,
                    collect_commands(given_sources, options.collect_options,
                                     options.call_postcollect,
                                     options.postcollect_args))
    /\ UNCHANGED << fsVars, genVars >>

NextCatalog == SourceDefs \/ CollectCommands

SpecCatalog == InitCatalog /\ [][NextCatalog]_vars


(* ------------------------------------------------------------------ *)
(* Vocabulary of the properties                                        *)
(* ------------------------------------------------------------------ *)

IsCollectSource(i) == commands[i].kind = "CollectSource"

IsBatch(i) == commands[i].kind = "PostCollectFiles"

Failure(outcome) ==
    outcome \in {"KeyError", "IOError", "IndexError", "CalledProcessError"}

\* The staged files run() has to process: the listed names that are not hidden.
Visible(i) == { f \in found[i] : ~StartsWithDot(f) }

\* The positions, in the history of command i, of the postcollect calls made
\* for staged file f.
PostCallsOf(i, f) ==
    { k \in 1..Len(calls[i]) :
        calls[i][k].phase = "postcollect" /\ calls[i][k].fname = f }

\* The postcollect batch of staged file f reported an error.
PostFailed(i, f) == \E k \in PostCallsOf(i, f) : Failure(calls[i][k].outcome)

\* A file written during this run is at path p.
IsNew(p) == p \in DOMAIN fsFiles /\ fsFiles[p] = "new"

\* The moves command i made of staged file f.
MovesOf(i, f) == { k \in 1..Len(moved[i]) : moved[i][k].fname = f }

(* ------------------------------------------------------------------ *)
(* C1                                                                  *)
(* ------------------------------------------------------------------ *)

\* C1 (as claimed): once a collect command has returned, every non-hidden
\* staged file whose postcollect reported no error is at <destination>/<name>,
\* and is neither in the destination's 'errors' directory nor in staging.
C1_SuccessFileAtDestination ==
    \A i \in Cmds :
      (IsCollectSource(i) /\ pc[i] = "returned") =>
        \A f \in Visible(i) :
          ~PostFailed(i, f) =>
            /\ IsNew(Join(DestDir(i), f))
            /\ ~IsNew(Join(QuarantineDir(i), f))
            /\ Join(TmpDir(i), f) \notin DOMAIN fsFiles

(* ------------------------------------------------------------------ *)
(* C2                                                                  *)
(* ------------------------------------------------------------------ *)

PostcollectFinished(i, f) ==
    /\ Cardinality(PostCallsOf(i, f)) = Len(commands[i].postcollect_cmds)
    /\ \A k \in PostCallsOf(i, f) : calls[i][k].outcome # "running"

C3_State ==
    /\ \A p \in DOMAIN fsFiles :
         (IsUnder(p, Root) /\ fsFiles[p] = "new") =>
           \E i \in Cmds :
             /\ IsCollectSource(i)
             /\ \E k \in 1..Len(moved[i]) :
                  /\ moved[i][k].target = p
                  /\ PostcollectFinished(i, moved[i][k].fname)
    /\ \A i \in Cmds :
         IsCollectSource(i) =>
           \A f \in Visible(i) :
             /\ Cardinality(MovesOf(i, f)) <= 1
             /\ \A k \in MovesOf(i, f) :
                  /\ moved[i][k].src = Join(TmpDir(i), f)
                  /\ moved[i][k].target \in
                       { Join(DestDir(i), f), Join(QuarantineDir(i), f) }
                  /\ IsNew(moved[i][k].target)
             /\ (MovesOf(i, f) # {}) => Join(TmpDir(i), f) \notin DOMAIN fsFiles
             /\ (MovesOf(i, f) = {} /\ pc[i] \notin {"returned", "raised"})
                  => /\ IsNew(Join(TmpDir(i), f))
                     /\ ~IsNew(Join(DestDir(i), f))
                     /\ ~IsNew(Join(QuarantineDir(i), f))
             /\ pc[i] = "returned" => Cardinality(MovesOf(i, f)) = 1

C3_Step ==
    \A i \in Cmds :
      (commands' = commands /\ moved'[i] # moved[i]) =>
        /\ pc[i] = "execute"
        /\ frame[i].phase = "postcollect"
        /\ PostcollectFinished(i, fname[i])
        /\ \E m \in [fname : {fname[i]}, src : {Join(TmpDir(i), fname[i])},
                     target : { Join(DestDir(i), fname[i]),
                                Join(QuarantineDir(i), fname[i]) }] :
             /\ moved'[i] = Append(moved[i], m)
             /\ m.src \in DOMAIN fsFiles
             /\ m.src \notin DOMAIN fsFiles'
             /\ m.target \in DOMAIN fsFiles'

BatchCalls(i, phase, f) ==
    LET OfBatch(e) == e.phase = phase /\ e.fname = f
    IN SelectSeq(calls[i], OfBatch)

Failures(entries) == { k \in 1..Len(entries) : Failure(entries[k].outcome) }

Quarantined(directory, fpath) == Join(Join(directory, "errors"), Basename(fpath))

C5_State ==
    \A i \in Cmds :
      /\ IsCollectSource(i) =>
           \A k \in 1..Len(moved[i]) :
             PostFailed(i, moved[i][k].fname) =>
               /\ moved[i][k].target = Join(QuarantineDir(i), moved[i][k].fname)
               /\ IsNew(moved[i][k].target)
               /\ ~IsNew(Join(DestDir(i), moved[i][k].fname))
      /\ IsBatch(i) =>
           /\ moved[i] = << >>
           /\ \A k \in 1..Len(commands[i].files) :
                commands[i].files[k] \in DOMAIN fsFiles

C5_Step ==
    (commands' = commands /\ \E i \in Cmds : IsBatch(i)) =>
      (fsFiles' = fsFiles /\ fsDirs' = fsDirs)

Count(errs, e) == Cardinality({ n \in 1..Len(errs) : errs[n] = e })

\* C6 (as claimed): a failed acknowledgment call of a returned collect
\* command is among the errors the command returns, and among the aggregated
\* errors once its future was handed over.
C6_AckFailureReported ==
    \A i \in Cmds :
      (IsCollectSource(i) /\ pc[i] = "returned") =>
        \A k \in 1..Len(calls[i]) :
          (calls[i][k].phase = "ack" /\ Failure(calls[i][k].outcome)) =>
            LET exc == Exc(calls[i][k].outcome, calls[i][k].base_cmd)
            IN /\ Count(cmd_errors[i], exc) >= 1
               /\ i \in yielded => Count(errors, exc) >= 1


(* ------------------------------------------------------------------ *)
(* C7                                                                  *)
(* ------------------------------------------------------------------ *)

\* The positions of the acknowledgment calls in the history of command i.
AckCallsOf(i) == { k \in 1..Len(calls[i]) : calls[i][k].phase = "ack" }

\* The basenames in a ';'-joined list.
Names(joined) == { joined[k] : k \in DOMAIN joined } \ { ";" }

\* C7 (as claimed): a returned collect command with an acknowledgment
\* template has called it exactly once, after every staged file was placed;
\* SUCCESS_FILES and ERROR_FILES are disjoint and together name the non-hidden
\* staged files; a name is in SUCCESS_FILES iff the file was moved to
\* <destination>/<name> and in ERROR_FILES iff it was moved to
\* <destination>/errors/<name>.
C7_AckOnceWithFileSets ==
    \A i \in Cmds :
      (/\ IsCollectSource(i)
       /\ commands[i].ack_cmd # NoTemplate
       /\ pc[i] = "returned") =>
        /\ Cardinality(AckCallsOf(i)) = 1
        /\ \A k \in AckCallsOf(i) :
             LET success == Names(calls[i][k].env["SUCCESS_FILES"])
                 failed == Names(calls[i][k].env["ERROR_FILES"])
             IN /\ k = Len(calls[i])
                /\ success \cap failed = {}
                /\ success \cup failed = Visible(i)
                /\ \A f \in Visible(i) :
                     /\ f \in success <=>
                          \E m \in MovesOf(i, f) :
                            moved[i][m].target = Join(DestDir(i), f)
                     /\ f \in failed <=>
                          \E m \in MovesOf(i, f) :
                            moved[i][m].target = Join(QuarantineDir(i), f)

(* ------------------------------------------------------------------ *)
(* C8                                                                  *)
(* ------------------------------------------------------------------ *)

\* The place of a phase in the life of a collect command.
Rank(phase) == CASE phase = "collect" -> 1
                 [] phase = "postcollect" -> 2
                 [] phase = "ack" -> 3
                 [] OTHER -> 0

\* C8: in the history of a collect command, whatever the other commands do,
\* no call starts while an earlier one runs; the collect call comes first,
\* then the postcollect calls, then the acknowledgment; when the
\* acknowledgment is called every staged file has had all its postcollect
\* calls and its one move; and while any call of the command runs, the
\* acknowledgment included, its staging directory exists and the command has
\* not ended.
C8_PhasesInOrder ==
    \A i \in Cmds :
      IsCollectSource(i) =>
        /\ \A k \in 1..Len(calls[i]) :
             /\ k < Len(calls[i]) => calls[i][k].outcome # "running"
             /\ \A k2 \in k..Len(calls[i]) :
                  Rank(calls[i][k].phase) <= Rank(calls[i][k2].phase)
             /\ calls[i][k].staged
             /\ calls[i][k].outcome = "running" =>
                  /\ TmpDir(i) \in fsDirs
                  /\ pc[i] \in {"execute_wait", "ack_wait"}
             /\ calls[i][k].phase = "postcollect" =>
                  /\ calls[i][1].phase = "collect"
                  /\ AckCallsOf(i) = {}
                       => calls[i][k].fname \notin
                            { listing[i][n] : n \in DOMAIN listing[i] }
             /\ calls[i][k].phase = "ack" =>
                  /\ Cardinality(AckCallsOf(i)) = 1
                  /\ listing[i] = << >>
                  /\ frame[i].phase = "none"
                  /\ \A f \in Visible(i) :
                       /\ PostcollectFinished(i, f)
                       /\ Cardinality(MovesOf(i, f)) = 1
        /\ (pc[i] \in {"returned", "raised"}) => TmpDir(i) \notin fsDirs

\* Two collect commands are in the pool, and the acknowledgment of one runs
\* after the command has moved a staged file.
C8_Witness ==
    \E i \in Cmds, j \in Cmds :
      /\ i # j
      /\ IsCollectSource(i)
      /\ pc[i] = "ack_wait"
      /\ moved[i] # << >>
      /\ pc[j] \notin {"new", "queued"}

(* ------------------------------------------------------------------ *)
(* C9                                                                  *)
(* ------------------------------------------------------------------ *)

\* The collect call of command i has failed.
CollectFailed(i) ==
    /\ calls[i] # << >>
    /\ calls[i][1].phase = "collect"
    /\ Failure(calls[i][1].outcome)

\* run() of command i is past self.execute(tmpdir, env) and has not raised.
PastCollect(i) ==
    \/ pc[i] \in {"loop", "ack_wait", "cleanup", "returned"}
    \/ pc[i] \in {"execute", "execute_wait"} /\ frame[i].phase = "postcollect"

\* C9: when the collect call of a command has failed, its error is the first
\* of the errors the command returns (and is among the aggregated errors once
\* the future was handed over), every non-hidden file in staging is taken
\* into the loop over the staged files, and once the command has returned
\* each of them has had all its postcollect calls and its one move, to
\* <destination>/errors/<name> if a postcollect call failed.
C9_FailedCollectStillProcessed ==
    \A i \in Cmds :
      (IsCollectSource(i) /\ CollectFailed(i) /\ PastCollect(i)) =>
        LET exc == Exc(calls[i][1].outcome, calls[i][1].base_cmd)
        IN /\ cmd_errors[i] # << >>
           /\ cmd_errors[i][1] = exc
           /\ \A p \in DOMAIN fsFiles :
                (IsUnder(p, TmpDir(i)) /\ ~StartsWithDot(Basename(p)))
                  => Basename(p) \in found[i]
           /\ pc[i] = "returned" =>
                /\ i \in yielded => Count(errors, exc) >= 1
                /\ \A f \in Visible(i) :
                     /\ PostcollectFinished(i, f)
                     /\ Cardinality(MovesOf(i, f)) = 1
                     /\ \A m \in MovesOf(i, f) :
                          /\ moved[i][m].target \in
                               { Join(DestDir(i), f), Join(QuarantineDir(i), f) }
                          /\ PostFailed(i, f) =>
                               moved[i][m].target = Join(QuarantineDir(i), f)
                          /\ IsNew(moved[i][m].target)

\* A command whose collect call failed has returned, and a file the failed
\* process had left in staging is at its destination.
C9_Witness ==
    \E i \in Cmds :
      /\ IsCollectSource(i)
      /\ CollectFailed(i)
      /\ pc[i] = "returned"
      /\ \E f \in Visible(i) : ~PostFailed(i, f) /\ IsNew(Join(DestDir(i), f))

(* ------------------------------------------------------------------ *)
(* C10                                                                 *)
(* ------------------------------------------------------------------ *)

\* The calls of command i that stopped at an unknown variable of template tpl.
KeyErrorsOf(i, tpl) ==
    { k \in 1..Len(calls[i]) :
        calls[i][k].outcome = "KeyError" /\ calls[i][k].base_cmd = tpl }

\* C10 (as claimed): each call of a template that refers to a variable the
\* environment lacks leaves exactly one error in what the command returns,
\* and that error is in the aggregated list once the future was handed over.
C10_UnknownVariableOneError ==
    \A i \in Cmds :
      pc[i] = "returned" =>
        \A k \in 1..Len(calls[i]) :
          calls[i][k].outcome = "KeyError" =>
            LET tpl == calls[i][k].base_cmd
            IN /\ Count(cmd_errors[i], Exc("KeyError", tpl))
                    = Cardinality(KeyErrorsOf(i, tpl))
               /\ i \in yielded =>
                    Count(errors, Exc("KeyError", tpl))
                      >= Cardinality(KeyErrorsOf(i, tpl))


(* ------------------------------------------------------------------ *)
(* C11                                                                 *)
(* ------------------------------------------------------------------ *)

\* The commands whose run() has returned an error list.
Returned == { i \in Cmds : pc[i] = "returned" }

RECURSIVE SumCount(_, _)
\* How many times the lists returned by the commands of set S hold error e.
SumCount(S, e) ==
    IF S = {} THEN 0
    ELSE LET i == CHOOSE x \in S : TRUE
         IN Count(cmd_errors[i], e) + SumCount(S \ {i}, e)

RECURSIVE SumLen(_)
\* The sum of the lengths of the lists returned by the commands of set S.
SumLen(S) ==
    IF S = {} THEN 0
    ELSE LET i == CHOOSE x \in S : TRUE
         IN Len(cmd_errors[i]) + SumLen(S \ {i})

\* All the errors of this run.
RunErrors ==
    { errors[n] : n \in 1..Len(errors) }
    \cup UNION { { cmd_errors[i][n] : n \in 1..Len(cmd_errors[i]) } : i \in Cmds }

\* C11: whatever the order in which the commands end and the size of the
\* pool, the list _execute builds holds each error as many times as the lists
\* returned by the commands handed over so far hold it, and when _execute
\* returns every command was handed over: the result is the multiset union
\* of the lists the commands returned, and its length the sum of theirs.
C11_AggregateIsMultisetUnion ==
    /\ \A e \in RunErrors :
         Count(errors, e) = SumCount(yielded \cap Returned, e)
    /\ Len(errors) = SumLen(yielded \cap Returned)
    /\ main = "returned" => yielded = Cmds

\* _execute has returned the errors of two commands, the first command
\* handed over not being the first submitted.
C11_Witness ==
    /\ main = "returned"
    /\ Cardinality(Returned) = 2
    /\ \A i \in Returned : cmd_errors[i] # << >>
    /\ errors # << >>
    /\ errors[1] \notin { cmd_errors[1][n] : n \in 1..Len(cmd_errors[1]) }

(* ------------------------------------------------------------------ *)
(* C12                                                                 *)
(* ------------------------------------------------------------------ *)

\* The errors of the collect and postcollect calls of command i, in order.
OwnErrors(i) ==
    LET Failed(e) == e.phase # "ack" /\ Failure(e.outcome)
        failed == SelectSeq(calls[i], Failed)
    IN [n \in 1..Len(failed) |-> Exc(failed[n].outcome, failed[n].base_cmd)]

\* C12: a command that fails or whose run() raises stops nothing: _execute
\* raises only when the generator of the commands did, when it returns every
\* command has ended and was handed over, no command is run twice, and what a
\* command returns and moves is made of its own calls and lies under its own
\* destination, whatever its siblings did.
C12_SiblingsUnaffected ==
    /\ main = "raised" => \E k \in Cmds : commands[k].kind = "KeyError"
    /\ main = "returned" =>
         \A i \in Cmds : pc[i] \in {"returned", "raised"} /\ i \in yielded
    /\ \A i \in Cmds :
         IsCollectSource(i) =>
           /\ Len(BatchCalls(i, "collect", "")) <= 1
           /\ pc[i] = "returned" => cmd_errors[i] = OwnErrors(i)
           /\ \A m \in 1..Len(moved[i]) :
                /\ IsUnder(moved[i][m].src, TmpDir(i))
                /\ IsUnder(moved[i][m].target, DestDir(i))

\* _execute has returned; the run() of one command had raised, and a sibling
\* has returned its own errors.
C12_Witness ==
    /\ main = "returned"
    /\ \E i \in Cmds, j \in Cmds :
         /\ pc[i] = "raised"
         /\ pc[j] = "returned"
         /\ cmd_errors[j] # << >>

(* ------------------------------------------------------------------ *)
(* C13                                                                 *)
(* ------------------------------------------------------------------ *)

\* C13 (as claimed): no two collect commands of a run have the same
\* destination directory.
C13_OneCommandPerDestination ==
    \A i \in Cmds, j \in Cmds :
      (i # j /\ IsCollectSource(i) /\ IsCollectSource(j))
        => DestDir(i) # DestDir(j)


(* ------------------------------------------------------------------ *)
(* postcollect over a family of root directories                       *)
(* ------------------------------------------------------------------ *)

\* The files a root directory may hold: a file and a hidden file of s1, a
\* quarantined file of s1, a file of s2/sub1, a file of s2 (a node without
\* postcollect), a file in a directory no source matches.
TreeFiles ==
    { << "root", "s1", "a" >>, << "root", "s1", ".index" >>,
      << "root", "s1", "errors", "a" >>, << "root", "s2", "sub1", "a" >>,
      << "root", "s2", "a" >>, << "root", "a", "a" >> }

\* The directories that hold the files of `present`.
DirsOf(present) ==
    UNION { Prefixes(SubSeq(p, 1, Len(p) - 1)) : p \in present }

\* The `files` arguments of postcollect(): none (the root is scanned), one
\* entry, or one of some pairs of entries.
FileLists ==
    { << >> }
    \cup { << f >> : f \in FileArgs }
    \cup { << "s1", "s1" >>, << "s1", "/root/s1/a" >>, << "/root/s1/a", "s1" >>,
           << "/root/s1/a", "/root/s1/a" >>, << "s1", "s2.sub1" >>,
           << "s2.sub1", "s1" >>, << "/root/s2/sub1/a", "/root/s1/a" >>,
           << "/elsewhere/a", "s1" >>, << "s2", "s2.sub1" >>, << "s2", "s1" >>,
           << "/root/s1/errors/a", "/root/s1/a" >> }

InitTree ==
    /\ InitGen
    /\ fsFiles \in { [p \in present |-> "old"] : present \in SUBSET TreeFiles }
    /\ fsDirs = { Root, TmpBase } \cup DirsOf(DOMAIN fsFiles)
    /\ main = "idle"
    /\ max_workers = 1
    /\ environ = TestEnv
    /\ commands = << >>
    /\ submitted = 0
    /\ pc = << >>
    /\ yielded = {}
    /\ errors = << >>
    /\ cmd_errors = << >>
    /\ frame = << >>
    /\ found = << >>
    /\ listing = << >>
    /\ fname = << >>
    /\ success_files = << >>
    /\ error_files = << >>
    /\ calls = << >>
    /\ moved = << >>
    /\ batches = << >>
    /\ exit_status = << >>

\* Two of the orders os.listdir may return names in.
ListingOrders ==
    { << ".index", "a", "errors", "s1", "s2", "sub1" >>,
      << "sub1", "s2", "s1", "errors", "a", ".index" >> }

PostcollectFiles == PostcollectFrom(FileLists, ListingOrders)

NextPostcollect ==
    \/ PostcollectFiles
    \/ Submit
    \/ \E i \in Cmds : StartCommand(i)
    \/ \E i \in Cmds : ExecuteCall(i)
    \/ \E i \in Cmds : ProcessExit(i)
    \/ \E i \in Cmds : BatchReturn(i)
    \/ \E i \in Cmds : Yield(i)
    \/ ExecuteReturn
    \/ ExecuteRaise

SpecPostcollect == InitTree /\ [][NextPostcollect]_vars


(* ------------------------------------------------------------------ *)
(* A collect run that is interrupted                                   *)
(* ------------------------------------------------------------------ *)

\* KeyboardInterrupt while _execute is in as_completed: the executor's set of
\* threads is cleared, so that leaving the `with` block joins no thread, and
\* the exception is raised again; run() catches it and calls sys.exit(1).
\* The work queue of the executor is left as it is.
Interrupt ==
    /\ main = "as_completed"
    /\ main' = "interrupted"
    /\ exit_status' = << 1 >>
    /\ UNCHANGED << fsVars, genVars, batches, max_workers, environ, commands,
                    submitted, pc, yielded, errors, cmd_errors, frame, found,
                    listing, fname, success_files, error_files, calls, moved >>

\* The interpreter ends while workers are daemon threads (Python before 3.9):
\* they stop where they are, and what was queued is never run.  With
\* non-daemon workers the interpreter ends once every command has ended.
ThreadsKilled ==
    /\ main = "interrupted"
    /\ \E i \in Cmds : pc[i] \notin {"returned", "raised"}
    /\ main' = "exited"
    /\ pc' = [i \in Cmds |-> IF pc[i] \in {"returned", "raised"} THEN pc[i]
                              ELSE "killed"]
    /\ UNCHANGED << fsVars, genVars, batches, exit_status, max_workers, environ,
                    commands, submitted, yielded, errors, cmd_errors, frame,
                    found, listing, fname, success_files, error_files, calls,
                    moved >>

\* The command line `collect sources.yml`, with postcollect.
InterruptibleArgs ==
    [config : {Sources}, sources : {<< >>}, call_postcollect : {TRUE}]

CollectInterruptible == CollectFrom(InterruptibleArgs, { << >> })

NextInterrupt ==
    \/ CollectInterruptible
    \/ Submit
    \/ \E i \in Cmds : StartCommand(i)
    \/ \E i \in Cmds : Begin(i)
    \/ \E i \in Cmds : ExecuteCall(i)
    \/ \E i \in Cmds : ProcessExit(i)
    \/ \E i \in Cmds : CollectExecuted(i)
    \/ \E i \in Cmds : NextFile(i)
    \/ \E i \in Cmds : Place(i)
    \/ \E i \in Cmds : AckCall(i)
    \/ \E i \in Cmds : AckExit(i)
    \/ \E i \in Cmds : Finish(i)
    \/ \E i \in Cmds : Yield(i)
    \/ ExecuteReturn
    \/ Interrupt
    \/ ThreadsKilled

SpecInterrupt == Init /\ [][NextInterrupt]_vars


(* ------------------------------------------------------------------ *)
(* One collect run against an empty root                               *)
(* ------------------------------------------------------------------ *)

\* The program is run once, with the `collect` command, on the root of Init.
NextCollect ==
    \/ Collect
    \/ Submit
    \/ \E i \in Cmds : StartCommand(i)
    \/ \E i \in Cmds : Begin(i)
    \/ \E i \in Cmds : ExecuteCall(i)
    \/ \E i \in Cmds : ProcessExit(i)
    \/ \E i \in Cmds : CollectExecuted(i)
    \/ \E i \in Cmds : NextFile(i)
    \/ \E i \in Cmds : Place(i)
    \/ \E i \in Cmds : AckCall(i)
    \/ \E i \in Cmds : AckExit(i)
    \/ \E i \in Cmds : Finish(i)
    \/ \E i \in Cmds : Yield(i)
    \/ ExecuteReturn
    \/ ExecuteRaise

SpecCollect == Init /\ [][NextCollect]_vars


(* ------------------------------------------------------------------ *)
(* C14 .. C16: the commands generated from a catalog                   *)
(* ------------------------------------------------------------------ *)

\* The key sequences a catalog of the family can hold a node at.
KeyPaths == UNION { [1..n -> {"s1", "s2", "sub1", "sub2"}] : n \in 1..3 }

RECURSIVE NodeAt(_, _)
\* The value found by following the keys of `p` from `tree`, None without one.
NodeAt(tree, p) ==
    IF p = << >> THEN tree
    ELSE IF tree.t # "dict" \/ Head(p) \notin Keys(tree) THEN None
    ELSE NodeAt(tree.val[Head(p)], Tail(p))

\* A defining node: a mapping with a collect or a postcollect key.
IsDefining(node) == node.t = "dict" /\ Keys(node) \cap {"collect", "postcollect"} # {}

KeyIndex(node, key) == CHOOSE i \in 1..Len(node.keys) : node.keys[i] = key

\* Path p comes before path q in the depth-first pre-order of the catalog:
\* p is an ancestor of q, or where they part the key of p was inserted first.
Before(p, q) ==
    \/ Len(p) < Len(q) /\ SubSeq(q, 1, Len(p)) = p
    \/ \E d \in 1..Len(p) :
         /\ d <= Len(q)
         /\ SubSeq(p, 1, d - 1) = SubSeq(q, 1, d - 1)
         /\ p[d] # q[d]
         /\ LET parent == NodeAt(given_sources, SubSeq(p, 1, d - 1))
            IN KeyIndex(parent, p[d]) < KeyIndex(parent, q[d])

\* C14: once source_defs has run over the catalog, every defining node (a
\* mapping with a collect or a postcollect key) is yielded exactly once, paired
\* with the key sequence leading to it from the root; nothing else is yielded;
\* and the pairs come in depth-first pre-order following insertion order, a
\* node before its descendants.
C14_DefiningNodesOncePreOrder ==
    main # "idle" =>
      /\ \A p \in KeyPaths :
           IsDefining(NodeAt(given_sources, p)) =>
             Cardinality({ k \in 1..Len(defs) : defs[k].path = p }) = 1
      /\ \A k \in 1..Len(defs) :
           /\ defs[k].path \in KeyPaths
           /\ IsDefining(NodeAt(given_sources, defs[k].path))
           /\ defs[k].def = NodeAt(given_sources, defs[k].path)
      /\ \A k \in 1..Len(defs), l \in 1..Len(defs) :
           k < l => Before(defs[k].path, defs[l].path)

\* A catalog written s2 before s1, where s2 has a collect template and, written
\* before its own keys, the defining children sub2 and sub1.
C14_Witness ==
    /\ main = "source_defs"
    /\ given_sources.keys = << "s2", "s1" >>
    /\ Len(defs) = 4
    /\ defs[1].path = << "s2" >>
    /\ defs[1].def.keys[1] = "sub2"
    /\ "collect" \in Keys(defs[1].def)
    /\ defs[2].path = << "s2", "sub2" >>
    /\ defs[3].path = << "s2", "sub1" >>
    /\ defs[4].path = << "s1" >>

\* The paths of the nodes with a collect template.
CollectPaths ==
    { p \in KeyPaths :
        LET node == NodeAt(given_sources, p)
        IN node.t = "dict" /\ "collect" \in Keys(node) }

\* Every node with a collect template has a postcollect key, where the
\* postcollect templates are asked for.
WellFormed ==
    options.call_postcollect =>
      \A p \in CollectPaths : "postcollect" \in Keys(NodeAt(given_sources, p))

\* The templates of a value of the catalog: one for a string, those of a list.
Templates(value) == IF value.t = "str" THEN << value.v >> ELSE value.v

\* C15: over a well-formed catalog collect_commands emits exactly one
\* CollectSource per node that has a collect template and nothing else (none
\* for a postcollect-only node); the command carries the node's own path, its
\* collect template followed by the collect options, its postcollect
\* templates (none when postcollect is not to be called) and its
\* acknowledgment template.
C15_OneCollectCommandPerCollectNode ==
    (main \notin {"idle", "source_defs"} /\ WellFormed) =>
      /\ \A p \in CollectPaths :
           Cardinality({ i \in Cmds : commands[i].path = p }) = 1
      /\ \A i \in Cmds :
           /\ commands[i].kind = "CollectSource"
           /\ commands[i].path \in CollectPaths
           /\ LET node == NodeAt(given_sources, commands[i].path)
              IN /\ commands[i].cmds =
                      << node.val["collect"].v \o options.collect_options >>
                 /\ commands[i].postcollect_cmds =
                      (IF options.call_postcollect
                       THEN Templates(node.val["postcollect"]) ELSE << >>)
                 /\ commands[i].ack_cmd =
                      (IF "collectack" \in Keys(node)
                       THEN node.val["collectack"].v ELSE NoTemplate)
                 /\ commands[i].postcollect_args = options.postcollect_args

\* Two commands generated with an option and their postcollect templates, one
\* of a node with an acknowledgment template, from a catalog that also has a
\* postcollect-only node.
C15_Witness ==
    /\ main \notin {"idle", "source_defs"}
    /\ WellFormed
    /\ options.call_postcollect
    /\ options.collect_options # << >>
    /\ Len(commands) = 2
    /\ Len(defs) > 2
    /\ \E i \in Cmds : commands[i].ack_cmd # NoTemplate
    /\ \E i \in Cmds : Len(commands[i].postcollect_cmds) = 2

\* C16 (as claimed): when the catalog holds a node with a collect template
\* and no postcollect key, no collect command of the run is ever started: none
\* leaves the state it was created in, calls a process or moves a file.
C16_MalformedTreeAbortsBeforeAnyCommand ==
    (\E k \in Cmds : commands[k].kind = "KeyError") =>
      \A i \in Cmds : pc[i] = "new" /\ calls[i] = << >> /\ moved[i] = << >>


(* ------------------------------------------------------------------ *)
(* C17                                                                 *)
(* ------------------------------------------------------------------ *)

\* The names listed in staging that do not begin with a dot.
NonHidden(i) == found[i] \ {".index"}

ScanPass == main # "idle" /\ options.files = << >>

\* The run is a postcollect pass over an explicit list.
ListPass == main # "idle" /\ options.files # << >>

\* The key paths of the matched directories: the key path leads to a mapping
\* of the catalog and the directory of that name exists under the root.
MatchedPaths ==
    { p \in KeyPaths :
        NodeAt(given_sources, p).t = "dict" /\ JoinAll(Root, p) \in fsDirs }

\* The regular files directly inside a directory.
FilesIn(directory) ==
    { q \in DOMAIN fsFiles : Len(q) = Len(directory) + 1 /\ IsUnder(q, directory) }

\* The directories directly inside a directory.
DirsIn(directory) ==
    { q \in fsDirs : Len(q) = Len(directory) + 1 /\ IsUnder(q, directory) }

Elements(seq) == { seq[n] : n \in 1..Len(seq) }

\* The batches generated for key path p.
BatchesOf(p) == { i \in Cmds : IsBatch(i) /\ commands[i].path = p }

\* C18: in a pass that scans the root, a matched directory whose node has a
\* postcollect key and which holds regular files gets exactly one batch, bound
\* to the node's path, its directory and its templates, whose files are all
\* the regular files directly inside the directory, each once (no file
\* argument when postcollect_args is off); a matched directory without such
\* files gets none, and there is no other batch.  Once the batch has run,
\* each template was called exactly once, in order, with all those files.
C18_OneBatchPerMatchedDirectory ==
    ScanPass =>
      /\ \A p \in MatchedPaths :
           LET node == NodeAt(given_sources, p)
               directory == JoinAll(Root, p)
           IN IF "postcollect" \in Keys(node) /\ FilesIn(directory) # {}
              THEN /\ Cardinality(BatchesOf(p)) = 1
                   /\ \A i \in BatchesOf(p) :
                        /\ commands[i].directory = directory
                        /\ commands[i].cmds = Templates(node.val["postcollect"])
                        /\ IF options.postcollect_args
                           THEN /\ Elements(commands[i].files) = FilesIn(directory)
                                /\ Len(commands[i].files) =
                                     Cardinality(FilesIn(directory))
                           ELSE commands[i].files = << >>
              ELSE BatchesOf(p) = {}
      /\ \A i \in Cmds : IsBatch(i) /\ commands[i].path \in MatchedPaths
      /\ \A i \in Cmds :
           pc[i] = "returned" =>
             /\ Len(calls[i]) = Len(commands[i].cmds)
             /\ \A k \in 1..Len(calls[i]) :
                  /\ calls[i][k].base_cmd = commands[i].cmds[k]
                  /\ calls[i][k].files = commands[i].files

\* The scan of a root where s1 holds two files and s2/sub1 one has returned:
\* the batch of s1 has both files and its two templates were called.
C18_Witness ==
    /\ ScanPass
    /\ main = "returned"
    /\ options.postcollect_args
    /\ Len(commands) = 2
    /\ \E i \in Cmds :
         /\ commands[i].path = << "s1" >>
         /\ Len(commands[i].files) = 2
         /\ Len(calls[i]) = 2

\* The subdirectories found in the directories of the key paths `scanned`
\* whose name is no key of the node of the directory they are in.
Unmatched(scanned) ==
    { d \in fsDirs :
        \E p \in scanned :
          /\ d \in DirsIn(JoinAll(Root, p))
          /\ Basename(d) \notin Keys(NodeAt(given_sources, p)) }

\* The files found in the directories of the key paths `scanned` whose node
\* has no postcollect key.
Orphans(scanned) ==
    { f \in DOMAIN fsFiles :
        \E p \in scanned :
          /\ f \in FilesIn(JoinAll(Root, p))
          /\ "postcollect" \notin Keys(NodeAt(given_sources, p)) }

LogCount(msg, path) ==
    Cardinality({ n \in 1..Len(log) : log[n] = [msg |-> msg, path |-> path] })

\* C19: in a pass that scans the root, every batch is bound to a matched
\* directory whose node has a postcollect key and every file of a batch lies
\* directly in that directory, so nothing inside an unmatched subdirectory (a
\* quarantine directory 'errors' included) is in a batch; one error is logged
\* for each unmatched subdirectory not named 'errors' and none for one named
\* 'errors'; a file in a directory whose node has no postcollect key is logged
\* once and is in no batch; nothing else is logged.
C19_UnmatchedSkipped ==
    ScanPass =>
      LET matched == MatchedPaths
          unmatched == Unmatched(matched \cup { << >> })
          orphans == Orphans(matched \cup { << >> })
      IN /\ \A i \in Cmds :
              /\ commands[i].path \in matched
              /\ "postcollect" \in Keys(NodeAt(given_sources, commands[i].path))
              /\ commands[i].directory = JoinAll(Root, commands[i].path)
              /\ \A f \in Elements(commands[i].files) :
                   /\ f \in FilesIn(commands[i].directory)
                   /\ \A d \in unmatched : ~IsUnder(f, d)
                   /\ f \notin orphans
         /\ \A d \in unmatched :
              LogCount("No source matching", d) =
                (IF Basename(d) = "errors" THEN 0 ELSE 1)
         /\ \A f \in orphans : LogCount("No postcollect command", f) = 1
         /\ Len(log) = Cardinality({ d \in unmatched : Basename(d) # "errors" })
                         + Cardinality(orphans)

\* The scan of a root that holds a file of s1, a quarantined file of s1, a
\* file in s2 (no postcollect) and a file in a directory no source matches:
\* one batch, of the one file of s1, and two errors logged.
C19_Witness ==
    /\ ScanPass
    /\ main = "returned"
    /\ options.postcollect_args
    /\ << "root", "s1", "errors", "a" >> \in DOMAIN fsFiles
    /\ << "root", "a", "a" >> \in DOMAIN fsFiles
    /\ << "root", "s2", "a" >> \in DOMAIN fsFiles
    /\ Len(log) = 2
    /\ Len(commands) = 1
    /\ commands[1].files = << << "root", "s1", "a" >> >>

\* C20 (as claimed): in a pass over an explicit list, no two batches are
\* bound to the same source and no file is twice in the file list of a batch.
C20_OneBatchPerSourceNoDuplicate ==
    ListPass =>
      \A i \in Cmds :
        IsBatch(i) =>
          /\ BatchesOf(commands[i].path) = {i}
          /\ Len(commands[i].files) = Cardinality(Elements(commands[i].files))


(* ------------------------------------------------------------------ *)
(* C21                                                                 *)
(* ------------------------------------------------------------------ *)

\* An entry of the list names a source of the catalog.
NamesSource(e) == NodeAt(given_sources, SplitDot(e)) # None

\* The key path of the source an entry resolves to, when it has one: the
\* source it names, or the one of the directory the file is in.
EntryPath(e) ==
    IF NamesSource(e) THEN SplitDot(e) ELSE RelParts(AbsPath(e), Root)

\* A valid entry: a source with a postcollect key, or a file under the root
\* in the directory of such a source.
ValidEntry(e) ==
    /\ NamesSource(e) \/ StartsWith(AbsPath(e), Root)
    /\ NodeAt(given_sources, EntryPath(e)).t = "dict"
    /\ "postcollect" \in Keys(NodeAt(given_sources, EntryPath(e)))

\* The files a valid entry stands for.
EntryFiles(e) ==
    IF NamesSource(e) THEN FilesIn(JoinAll(Root, SplitDot(e))) ELSE { AbsPath(e) }

\* C21 (as claimed): in a pass over an explicit list the commands are all
\* generated (the pass does not raise); exactly one error is logged per
\* invalid entry and none for a valid one; the batch of a valid entry's source
\* holds the entry's files, no batch holds anything else, and when the pass
\* has returned every batch has run all its templates.
C21_InvalidEntriesLoggedAndDropped ==
    ListPass =>
      LET given == options.files
          invalid == { n \in 1..Len(given) : ~ValidEntry(given[n]) }
      IN /\ main # "raised"
         /\ \A i \in Cmds : IsBatch(i)
         /\ Len(log) = Cardinality(invalid)
         /\ \A n \in 1..Len(given) :
              IF n \in invalid
              THEN Cardinality({ m \in 1..Len(log) : log[m].path = given[n] })
                     = Cardinality({ m \in invalid : given[m] = given[n] })
              ELSE /\ \A m \in 1..Len(log) : log[m].path # given[n]
                   /\ \E i \in BatchesOf(EntryPath(given[n])) :
                        EntryFiles(given[n]) \subseteq Elements(commands[i].files)
         /\ \A i \in Cmds :
              \A f \in Elements(commands[i].files) :
                \E n \in (1..Len(given)) \ invalid :
                  /\ EntryPath(given[n]) = commands[i].path
                  /\ f \in EntryFiles(given[n])
         /\ main = "returned" =>
              \A i \in Cmds :
                pc[i] = "returned" /\ Len(calls[i]) = Len(commands[i].cmds)


(* ------------------------------------------------------------------ *)
(* C22                                                                 *)
(* ------------------------------------------------------------------ *)

\* A command of the run failed: a process it called failed, or could not be
\* called, or its run() raised.
CommandFailure ==
    \E i \in Cmds :
      \/ pc[i] = "raised"
      \/ \E k \in 1..Len(calls[i]) : Failure(calls[i][k].outcome)

\* C22 (as claimed): once the program has ended, its status is 0 exactly when
\* the run finished and no command failed, it is 2 whenever a command failed,
\* and when it is 1 no command was ever started.
C22_ExitStatus ==
    exit_status # << >> =>
      /\ exit_status = << 0 >> <=> (main = "returned" /\ ~CommandFailure)
      /\ CommandFailure => exit_status = << 2 >>
      /\ exit_status = << 1 >> => \A i \in Cmds : pc[i] = "new"

(* ------------------------------------------------------------------ *)
(* C23: an interrupt while waiting for results                         *)
(* ------------------------------------------------------------------ *)

\* C23 (as claimed): once the wait for results has been interrupted and the
\* interruption raised to the caller, nothing more is submitted and no command
\* that is still queued ever starts.
C23_InterruptDiscardsQueued ==
    [][main = "interrupted" =>
         /\ submitted' = submitted
         /\ \A i \in Cmds : pc[i] = "queued" => pc'[i] \in {"queued", "killed"}]_vars

(* ------------------------------------------------------------------ *)
(* C24: the quarantine directory is made lazily                        *)
(* ------------------------------------------------------------------ *)

\* The commands of the run that collect the same source as command i.
SameSource(i) == { j \in Cmds : IsCollectSource(j) /\ commands[j].path = commands[i].path }

\* Every command of the source of i has returned, its collect call failed and
\* it found no file in staging.
CollectedNothing(i) ==
    \A j \in SameSource(i) :
      pc[j] = "returned" /\ CollectFailed(j) /\ found[j] = {}

\* C24: in a collect run made on an empty root, the directory
\* <destination>/errors of a source exists only if the postcollect of a file
\* staged for that source failed; a source whose collect failed and staged no
\* file has its destination directory and no 'errors' directory in it.
C24_QuarantineMadeLazily ==
    \A i \in Cmds :
      IsCollectSource(i) =>
        /\ QuarantineDir(i) \in fsDirs =>
             \E j \in SameSource(i) : \E f \in Visible(j) : PostFailed(j, f)
        /\ CollectedNothing(i) =>
             DestDir(i) \in fsDirs /\ QuarantineDir(i) \notin fsDirs

\* A finished run in which one source has an 'errors' directory, and another
\* one, whose collect failed without staging a file, has none.
C24_Witness ==
    /\ main = "returned"
    /\ \E i \in Cmds : IsCollectSource(i) /\ QuarantineDir(i) \in fsDirs
    /\ \E i \in Cmds :
         /\ IsCollectSource(i)
         /\ CollectedNothing(i)
         /\ DestDir(i) \in fsDirs
         /\ QuarantineDir(i) \notin fsDirs

(* ------------------------------------------------------------------ *)
(* C25: a collect run without postcollect                              *)
(* ------------------------------------------------------------------ *)

\* Command i is a collect command generated with call_postcollect=False.
NoPostcollectRun(i) == IsCollectSource(i) /\ ~options.call_postcollect

\* C25 (as claimed): in a collect run made with call_postcollect=False every
\* collect command has an empty list of postcollect templates and calls no
\* postcollect process, and once it has returned every non-hidden staged file
\* was moved to <destination>/<name> and none is in the 'errors' directory.
C25_NoPostcollectAllToDestination ==
    \A i \in Cmds :
      NoPostcollectRun(i) =>
        /\ commands[i].postcollect_cmds = << >>
        /\ \A k \in 1..Len(calls[i]) : calls[i][k].phase # "postcollect"
        /\ pc[i] = "returned" =>
             \A f \in Visible(i) :
               /\ IsNew(Join(DestDir(i), f))
               /\ ~IsNew(Join(QuarantineDir(i), f))
               /\ \A k \in MovesOf(i, f) :
                    moved[i][k].target = Join(DestDir(i), f)

(* ------------------------------------------------------------------ *)
(* C26: postcollect without file arguments                             *)
(* ------------------------------------------------------------------ *)

\* The calls of command i made for a postcollect template.
PostcollectCalls(i) ==
    { k \in 1..Len(calls[i]) : calls[i][k].phase \in {"postcollect", "batch"} }

\* C26 (as claimed): in a run made with postcollect_args=False no postcollect
\* template is called with a file path, whether the run is a collect, a scan
\* of the root or a pass over a list of files; and a batch that has returned
\* has called each of its templates once, with the flag as without it.
C26_NoFileArguments ==
    \A i \in Cmds :
      /\ ~options.postcollect_args =>
           \A k \in PostcollectCalls(i) : calls[i][k].files = << >>
      /\ (IsBatch(i) /\ pc[i] = "returned") =>
           Cardinality(PostcollectCalls(i)) = Len(commands[i].cmds)

(* ------------------------------------------------------------------ *)
(* C27: the staging directory                                          *)
(* ------------------------------------------------------------------ *)

\* The paths of the file system that lie in the staging directory of command i.
InStaging(i) ==
    { p \in DOMAIN fsFiles \cup fsDirs : StartsWith(p, TmpDir(i)) }

\* The staged names of command i that run() skips.
Hidden(i) == { f \in found[i] : StartsWithDot(f) }

\* C27: the staging directory of a collect command is its own: no other
\* command has the same one, and what the command passes as DIR to its
\* collect template and moves files from is that directory.  Once run() has
\* returned or raised, whatever the collect, postcollect and acknowledgment
\* calls did, the directory and what it held are gone.  No hidden staged file
\* was passed to postcollect or moved.
C27_StagingIsOwnAndRemoved ==
    \A i \in Cmds :
      IsCollectSource(i) =>
        /\ \A j \in Cmds \ {i} : IsCollectSource(j) => TmpDir(j) # TmpDir(i)
        /\ \A k \in 1..Len(calls[i]) :
             calls[i][k].phase = "collect" => calls[i][k].env["DIR"] = TmpDir(i)
        /\ \A k \in 1..Len(moved[i]) :
             moved[i][k].src = Join(TmpDir(i), moved[i][k].fname)
        /\ pc[i] \in {"returned", "raised"} => InStaging(i) = {}
        /\ \A f \in Hidden(i) :
             /\ PostCallsOf(i, f) = {}
             /\ MovesOf(i, f) = {}
             /\ ~IsNew(Join(DestDir(i), f))
             /\ ~IsNew(Join(QuarantineDir(i), f))

\* A collect command has returned after a failed call, having staged a hidden
\* file and moved another one, while another command still has its staging
\* directory.
C27_Witness ==
    \E i \in Cmds, j \in Cmds :
      /\ i # j
      /\ IsCollectSource(i) /\ IsCollectSource(j)
      /\ pc[i] = "returned"
      /\ cmd_errors[i] # << >>
      /\ Hidden(i) # {}
      /\ moved[i] # << >>
      /\ TmpDir(j) \in fsDirs

(* ------------------------------------------------------------------ *)
(* C28: the environment of a command                                   *)
(* ------------------------------------------------------------------ *)

\* The variables init_env and run() add to the environment of a call.
DerivedVars ==
    {"SOURCE", "COLLECTOR", "DIR", "OUTPUT_DIR", "TMPDIR", "SUCCESS_FILES",
     "ERROR_FILES"}

\* The directory command i gives as DIR to a call of phase `phase`.
WorkingDir(i, phase) ==
    CASE phase = "ack" -> DestDir(i)
      [] phase = "batch" -> commands[i].directory
      [] OTHER -> TmpDir(i)

\* C28: the environment given to _execute is never changed by a command, and
\* holds none of the derived variables.  Every call of a command is made with
\* SOURCE the first segment of the command's path, COLLECTOR the segments
\* joined by '.', DIR the command's own working directory, OUTPUT_DIR exactly
\* when ROOT is defined; TMPDIR, SUCCESS_FILES and ERROR_FILES are set for the
\* acknowledgment call only, to the command's own staging directory and file
\* lists.
C28_EnvironmentIsACopy ==
    /\ environ \in Envs
    /\ DOMAIN environ \cap DerivedVars = {}
    /\ \A i \in Cmds : \A k \in 1..Len(calls[i]) :
         LET e == calls[i][k]
             path == commands[i].path
         IN /\ e.env["SOURCE"] = << path[1] >>
            /\ e.env["COLLECTOR"] = StrJoin(".", path)
            /\ e.env["DIR"] = WorkingDir(i, e.phase)
            /\ "OUTPUT_DIR" \in DOMAIN e.env <=> "ROOT" \in DOMAIN environ
            /\ "OUTPUT_DIR" \in DOMAIN e.env =>
                 e.env["OUTPUT_DIR"] = JoinAll(environ["ROOT"], path)
            /\ IF e.phase = "ack"
               THEN /\ e.env["TMPDIR"] = TmpDir(i)
                    /\ e.env["SUCCESS_FILES"] = StrJoin(";", success_files[i])
                    /\ e.env["ERROR_FILES"] = StrJoin(";", error_files[i])
                    /\ DOMAIN e.env \subseteq DerivedVars
               ELSE DOMAIN e.env \subseteq {"SOURCE", "COLLECTOR", "DIR", "OUTPUT_DIR"}

\* In a run whose environment does not define ROOT, a command has made its
\* acknowledgment call after it moved a file, while a command of another
\* source, which has made a call too, has not ended.
C28_Witness ==
    \E i \in Cmds, j \in Cmds :
      /\ IsCollectSource(i) /\ IsCollectSource(j)
      /\ commands[i].path[1] # commands[j].path[1]
      /\ \E k \in 1..Len(calls[i]) : calls[i][k].phase = "ack"
      /\ success_files[i] # << >>
      /\ pc[i] = "cleanup"
      /\ calls[j] # << >>
      /\ pc[j] \notin {"returned", "raised"}
      /\ "ROOT" \notin DOMAIN environ

(* ------------------------------------------------------------------ *)
(* C29: a command whose run() raises                                   *)
(* ------------------------------------------------------------------ *)

\* Command i is handed over to the main thread in this step.
HandedOver(i) == i \notin yielded /\ i \in yielded'

\* C29: when the future of a command whose run() raised is handed over, the
\* aggregated list is left as it is: nothing is added for the command, the
\* errors it had accumulated before raising included, and what the other
\* commands contributed stays.  A command that returned adds its own list at
\* the end.
C29_RaisedRunContributesNothing ==
    [][\A i \in Cmds :
         HandedOver(i) =>
           IF pc[i] = "raised" THEN errors' = errors
           ELSE errors' = errors \o cmd_errors[i]]_vars

\* _execute has returned errors, and one of its commands raised after it had
\* accumulated errors of its own.
C29_Witness ==
    /\ main = "returned"
    /\ errors # << >>
    /\ \E i \in Cmds :
         /\ pc[i] = "raised"
         /\ i \in yielded
         /\ cmd_errors[i] # << >>
         /\ \A n \in 1..Len(cmd_errors[i]) :
              Count(errors, cmd_errors[i][n]) = SumCount(Returned, cmd_errors[i][n])

(* ------------------------------------------------------------------ *)
(* C30: one place per file name                                        *)
(* ------------------------------------------------------------------ *)

\* The files under the root that lie directly in an 'errors' directory.
QuarantinedFiles ==
    { p \in DOMAIN fsFiles :
        Len(p) >= 3 /\ StartsWith(p, Root) /\ p[Len(p) - 1] = "errors" }

\* The path a quarantined file would have in the plain destination.
PlainPath(p) == Append(SubSeq(p, 1, Len(p) - 2), p[Len(p)])

CollectOnEmpty ==
    /\ fsFiles = << >>
    /\ Collect
    /\ environ' = BuiltEnv
    /\ options'.postcollect_args

\* postcollect() called without a list of files: the root is scanned.
PostcollectScan == PostcollectFrom({ << >> }, ListingOrders)

\* A step of the main thread of _execute, of a worker or of a process it
\* waits for.
EngineStep ==
    \/ Submit
    \/ \E i \in Cmds : StartCommand(i)
    \/ \E i \in Cmds : Begin(i)
    \/ \E i \in Cmds : ExecuteCall(i)
    \/ \E i \in Cmds : ProcessExit(i)
    \/ \E i \in Cmds : CollectExecuted(i)
    \/ \E i \in Cmds : NextFile(i)
    \/ \E i \in Cmds : Place(i)
    \/ \E i \in Cmds : AckCall(i)
    \/ \E i \in Cmds : AckExit(i)
    \/ \E i \in Cmds : Finish(i)
    \/ \E i \in Cmds : BatchReturn(i)
    \/ \E i \in Cmds : Yield(i)
    \/ ExecuteReturn
    \/ ExecuteRaise

\* One call of collect() or of postcollect() on a root drawn by InitTree.
NextLive == CollectOnEmpty \/ PostcollectScan \/ EngineStep

\* Threads and processes are scheduled, and every process ends: as long as a
\* step of the engine is possible, one is taken.
SpecLive == InitTree /\ [][NextLive]_vars /\ WF_vars(EngineStep)

\* The generator handed every command to _execute without raising.
Generated ==
    /\ main \in {"submit", "as_completed"}
    /\ \A i \in Cmds : commands[i].kind \in {"CollectSource", "PostCollectFiles"}

\* The calls command i made for the templates of its own list.
OwnCalls(i) ==
    { k \in 1..Len(calls[i]) : calls[i][k].phase \in {"collect", "batch"} }

\* _execute has returned, and every command was submitted, has ended, was
\* handed over, and has called each template of its list once if it returned.
AllRanOnce ==
    /\ main = "returned"
    /\ submitted = Len(commands)
    /\ yielded = Cmds
    /\ \A i \in Cmds :
         /\ pc[i] \in {"returned", "raised"}
         /\ pc[i] = "returned" => Cardinality(OwnCalls(i)) = Len(commands[i].cmds)

\* _execute has returned or raised, and every submitted command has ended.
Ended ==
    /\ main \in {"returned", "raised"}
    /\ \A i \in 1..submitted : pc[i] \in {"returned", "raised"}

\* C31: whatever the number of workers and of commands, when every process
\* ends, a call of collect() or postcollect() whose commands were generated
\* returns, every command having been submitted and run once to its end; and
\* every call ends, with each command it submitted run to its end.
C31_EveryRunReturns ==
    /\ Generated ~> AllRanOnce
    /\ (main = "submit") ~> Ended

\* _execute has returned from a run with one worker and more than one command,
\* all of which returned.
C31_Witness ==
    /\ AllRanOnce
    /\ max_workers = 1
    /\ Len(commands) > max_workers
    /\ \A i \in Cmds : pc[i] = "returned"
====
